---- MODULE Spec2Model ----
(***************************************************************************)
(* Model of the `diff` command of spr (src/spr/src/commands/diff.rs) and   *)
(* of the repository operations of src/spr/src/git.rs it relies on: a      *)
(* local stack of commits is synchronised with one pull request per        *)
(* commit.  The object store, the remote branches and the pull requests    *)
(* are the state; one pass of `diff` is StartPass, one ProcessCommit per   *)
(* prepared commit and FinishPass (the commit-message rewrite).            *)
(***************************************************************************)
EXTENDS Integers, Sequences, FiniteSets, TLC

VARIABLES
    objs,            \* object store: objs[oid] = [tree, parents, msg]
    master,          \* oid the trunk ref (config.master_ref) points to
    stack,           \* oids of the local branch above trunk, oldest first
    refs,            \* remote branches made by spr: refs[b] = [kind, oid]
    prs,             \* pull requests: prs[n] = [head, base, open, text]
    jj,              \* TRUE iff Git.jj is Some (Jujutsu backend present)
    pc,              \* position in diff(): "idle", "loop", "finish"
    opts,            \* DiffOptions of the running pass
    prepared,        \* prepared_commits of the running pass
    tasks,           \* pull_request_tasks: outcome of each prefetch
    master_base_oid, \* diff(): parent of the first prepared commit
    idx,             \* index of the next prepared commit of the loop
    result,          \* diff(): `result`, "ok" or the kind of the error
    log,             \* writes and calls issued by the running pass, in order
    decisions,       \* per processed commit: what diff_impl decided
    budget,          \* steps left, and whether a failure may still be injected
    hist,            \* history: what happened last, and whether the running
                     \* pass repeats a successful pass with nothing in between
    inflight,        \* pull_request_tasks spawned and not yet completed
    call,            \* the repository operation applied last, with its result
    search,          \* lock_and_find_master_base: the state of its loop
    lock             \* the repository mutex and the operation in progress

vars == <<objs, master, stack, refs, prs, jj, pc, opts, prepared, tasks,
          master_base_oid, idx, result, log, decisions, budget, hist,
          inflight, call, search, lock>>

\* State of the repository operations that are followed step by step or
\* applied one at a time.
sideVars == <<inflight, call, search, lock>>

\* Tasks that hold a clone of the Git handle: the task of diff and the
\* tasks it spawns.
MaxTasks == 2
Tasks == 1..MaxTasks

\* A task outside every operation of Git.
Idle == [op |-> "none", pos |-> 0]

\* No access to the repository made yet.
NoAccess == [task |-> 0, kind |-> "none", op |-> "none", guarded |-> FALSE]

\* The mutex free, every task idle.
NoLock == [held |-> {}, at |-> [t \in Tasks |-> Idle], last |-> NoAccess]

\* Largest local stack built by Init.
MaxStack == 2
\* Number of steps of one behaviour: `diff` passes and the changes the
\* user and the trunk make between them.
MaxSteps == 3

\* GitHubBranch::is_master_branch: the base of a PR that targets trunk.
MasterBranch == 0
\* pull_request_number: None
NoPR == 0

Files == {1, 2, 3}

-----------------------------------------------------------------------------
(* Commit messages (MessageSectionsMap), reduced to the sections diff reads *)

\* Accounts and teams known to the hosting service.
KnownUsers == {"alice"}
KnownTeams == {"core"}
\* Users whose profile has a display name (user.name is Some).
NamedUsers == {"alice"}

\* A Reviewers entry is <<name, annotated>>; a team carries a leading '#'.
ReviewerChoices ==
    { <<>>,
      << <<"alice", FALSE>>, <<"#core", FALSE>> >>,
      << <<"alice", FALSE>>, <<"ghost", FALSE>> >>,
      << <<"#nope", FALSE>> >> }

NoMessage == [text |-> 0, pr |-> NoPR, reviewers |-> <<>>]

IsTeam(name) == name \in {"#core", "#nope"}
\* reviewer.strip_prefix('#')
Slug(name) == IF name = "#core" THEN "core" ELSE "nope"

\* GitHub::get_github_team / GitHub::get_github_user succeed.
ResolvesAs(name) ==
    IF IsTeam(name) THEN Slug(name) \in KnownTeams ELSE name \in KnownUsers

-----------------------------------------------------------------------------
(* Object graph queries                                                    *)

TreeOf(oid) == objs[oid].tree
ParentsOf(oid) == objs[oid].parents

RECURSIVE Ancestors(_)
Ancestors(oid) ==
    {oid} \cup UNION { Ancestors(ParentsOf(oid)[k]) : k \in 1..Len(ParentsOf(oid)) }

SetMax(S) == CHOOSE x \in S : \A y \in S : y <= x

\* git2::Repository::merge_base: a best common ancestor (the newest one).
MergeBase(a, b) ==
    LET common == Ancestors(a) \cap Ancestors(b)
        best == { c \in common : \A d \in common \ {c} : c \notin Ancestors(d) }
    IN  SetMax(best)

\* Three-way merge of one path: ancestor, ours, theirs.
MergeFile(anc, ours, theirs) ==
    IF ours = anc THEN theirs
    ELSE IF theirs = anc THEN ours
    ELSE ours

FileConflicts(anc, ours, theirs) ==
    ours # anc /\ theirs # anc /\ ours # theirs

\* Git::lock_and_cherrypick: replay `oid` (its diff against its parent) on
\* `base_oid`, giving an index that may hold conflicts.
Cherrypick(oid, base_oid) ==
    LET anc == TreeOf(ParentsOf(oid)[1])
        ours == TreeOf(base_oid)
        theirs == TreeOf(oid)
    IN  [tree |-> [f \in Files |-> MergeFile(anc[f], ours[f], theirs[f])],
         conflicts |-> {f \in Files : FileConflicts(anc[f], ours[f], theirs[f])}]

\* Variant: a conflicted index is taken for a clean one.
HasConflicts_Never(index) == FALSE

\* git2::Index::has_conflicts
HasConflicts(index) == index.conflicts # {}

\* Git::lock_and_write_index
WriteIndex(index) == index.tree

\* The oid a commit written now gets (content addressed, fresh timestamp).
NewOid(store) == Len(store) + 1

-----------------------------------------------------------------------------
(* The repository before the first pass, and what the user and the trunk   *)
(* do between passes                                                       *)

EmptyTree == [f \in Files |-> 0]

\* Tree of the k-th commit of the initial stack; commit k (oid k+1) writes
\* its own oid into the file it edits.
RECURSIVE InitTree(_, _)
InitTree(edits, k) ==
    IF k = 0 THEN EmptyTree
    ELSE [InitTree(edits, k - 1) EXCEPT ![edits[k]] = k + 1]

InitObjs(n, edits, revs) ==
    [o \in 1..(n + 1) |->
        IF o = 1
        THEN [tree |-> EmptyTree, parents |-> <<>>, msg |-> NoMessage]
        ELSE [tree |-> InitTree(edits, o - 1), parents |-> <<o - 1>>,
              msg |-> [text |-> 1, pr |-> NoPR, reviewers |-> revs]]]

\* No prefetch is under way, no operation was applied, no search runs and
\* the mutex is free.
SideInit ==
    /\ inflight = {}
    /\ call = [op |-> "none", jj |-> FALSE, oid |-> 0, all |-> FALSE, to |-> 0,
               out |-> [ok |-> TRUE, err |-> "none", commits |-> <<>>], scope |-> <<>>]
    /\ search = [state |-> "none"]
    /\ lock = NoLock

Init ==
    /\ \E n \in 1..MaxStack :
         \E edits \in [1..n -> {1, 2}], revs \in ReviewerChoices :
            /\ edits[1] = 1
            /\ objs = InitObjs(n, edits, revs)
            /\ stack = [k \in 1..n |-> k + 1]
    /\ master = 1
    /\ refs = <<>>
    /\ prs = <<>>
    /\ jj \in BOOLEAN
    /\ pc = "idle"
    /\ opts = [all |-> FALSE, cherry_pick |-> FALSE, update_message |-> FALSE,
               message |-> FALSE, revision |-> 0]
    /\ prepared = <<>>
    /\ tasks = <<>>
    /\ master_base_oid = 1
    /\ idx = 1
    /\ result = "ok"
    /\ log = <<>>
    /\ decisions = <<>>
    /\ budget = [steps |-> MaxSteps, fault |-> TRUE]
    /\ hist = [since |-> "start", rerun |-> FALSE]
    /\ SideInit

passVars == <<pc, opts, prepared, tasks, master_base_oid, idx, result, log, decisions>>

\* Replay the commits `olds` (a chain, oldest first) on `parent`: each new
\* commit keeps the paths its original changed and takes the others from
\* its new parent (the user resolves towards the replayed commit).
RECURSIVE Replant(_, _, _)
Replant(store, olds, parent) ==
    IF olds = <<>> THEN store
    ELSE LET old == store[Head(olds)]
             oldpar == store[old.parents[1]]
             t == [f \in Files |-> IF old.tree[f] # oldpar.tree[f]
                                   THEN old.tree[f] ELSE store[parent].tree[f]]
             store2 == Append(store, [tree |-> t, parents |-> <<parent>>, msg |-> old.msg])
         IN  Replant(store2, Tail(olds), Len(store2))

SpendEdit ==
    /\ budget' = [budget EXCEPT !.steps = @ - 1]
    /\ hist' = [hist EXCEPT !.since = "change"]
    /\ UNCHANGED sideVars

\* The user and the trunk act between two passes.
Between == pc = "idle" /\ budget.steps > 1 /\ budget.steps < MaxSteps

\* A new commit lands on trunk and is fetched; with `rebase` the local
\* stack is rebased on it (git pull --rebase).
TrunkAdvance(rebase) ==
    /\ Between
    /\ LET t == NewOid(objs)
           store2 == Append(objs, [tree |-> [TreeOf(master) EXCEPT ![3] = t],
                                   parents |-> <<master>>, msg |-> NoMessage])
       IN  /\ master' = t
           /\ IF rebase
              THEN /\ objs' = Replant(store2, stack, t)
                   /\ stack' = [k \in 1..Len(stack) |-> t + k]
              ELSE /\ objs' = store2
                   /\ stack' = stack
    /\ SpendEdit
    /\ UNCHANGED <<refs, prs, jj, passVars>>

\* The path a commit changed (the least one), 1 if it changed none.
EditedFile(oid) ==
    LET ch == {f \in Files : TreeOf(oid)[f] # TreeOf(ParentsOf(oid)[1])[f]}
    IN  IF ch = {} THEN 1 ELSE CHOOSE f \in ch : \A g \in ch : f <= g

\* The user amends the k-th commit of the stack (new content in the file it
\* edits); the commits above it are restacked.
Amend(k) ==
    /\ Between
    /\ k \in 1..Len(stack)
    /\ LET old == objs[stack[k]]
           t == NewOid(objs)
           store2 == Append(objs, [old EXCEPT !.tree[EditedFile(stack[k])] = t])
       IN  /\ objs' = Replant(store2, SubSeq(stack, k + 1, Len(stack)), t)
           /\ stack' = [j \in 1..Len(stack) |-> IF j < k THEN stack[j] ELSE t + (j - k)]
    /\ SpendEdit
    /\ UNCHANGED <<master, refs, prs, jj, passVars>>

\* The user swaps the two topmost commits of the stack.
Reorder ==
    /\ Between
    /\ Len(stack) >= 2
    /\ LET n == Len(stack)
           t == NewOid(objs)
       IN  /\ objs' = Replant(objs, <<stack[n], stack[n - 1]>>, ParentsOf(stack[n - 1])[1])
           /\ stack' = [j \in 1..n |-> IF j < n - 1 THEN stack[j] ELSE t + (j - (n - 1))]
    /\ SpendEdit
    /\ UNCHANGED <<master, refs, prs, jj, passVars>>

\* Somebody closes pull request n on the hosting service.
ClosePR(n) ==
    /\ Between
    /\ n \in 1..Len(prs) /\ prs[n].open
    /\ prs' = [prs EXCEPT ![n].open = FALSE]
    /\ SpendEdit
    /\ UNCHANGED <<objs, master, stack, refs, jj, passVars>>

-----------------------------------------------------------------------------
(* diff_impl: the decisions, as the code takes them                        *)

\* base_branch: None
NoBranch == 0
\* pr_base_parent: None
NoOid == 0

\* The fetched state of pull request n (GitHub::get_pull_request).
Snapshot(n) ==
    [number |-> n, head |-> prs[n].head, head_oid |-> refs[prs[n].head].oid,
     base |-> prs[n].base,
     base_oid |-> IF prs[n].base = MasterBranch THEN master ELSE refs[prs[n].base].oid,
     open |-> prs[n].open, text |-> prs[n].text]

\* pull_request: None
NoPull ==
    [number |-> NoPR, head |-> NoBranch, head_oid |-> NoOid, base |-> MasterBranch,
     base_oid |-> NoOid, open |-> TRUE, text |-> 0]

\* Git::lock_and_prepare_commit
PrepareCommit(oid) ==
    [oid |-> oid, parent_oid |-> ParentsOf(oid)[1], message |-> objs[oid].msg,
     pull_request_number |-> objs[oid].msg.pr]

\* message::validate_commit_message: the title must not be empty.
ValidateCommitMessage(message) == message.text # 0

\* PullRequestUpdate::update_message: the new title/body, 0 if unchanged.
MessageUpdate(pr, message) == IF pr.text # message.text THEN message.text ELSE 0

DirectlyBasedOnMaster(parent_oid, mb) == parent_oid = mb

\* The else branch of `if !opts.cherry_pick || directly_based_on_master`.
UsesCherryPick(o, directly) == ~(~o.cherry_pick \/ directly)

\* checked_reviewers: a user with a display name is written "login (name)".
CheckedReviewers(names) ==
    [k \in 1..Len(names) |-> <<names[k][1], names[k][1] \in NamedUsers>>]

\* The entries of the Reviewers section that do not resolve.
\* Variant: every name is taken to resolve.
Unresolved_None(names) == {}

Unresolved(names) == {k \in 1..Len(names) : ~ResolvesAs(names[k][1])}

SetMin(S) == CHOOSE x \in S : \A y \in S : x <= y

NeedsMergingMaster_Never(pr_master_base, mb) == FALSE

NeedsMergingMaster(pr_master_base, mb) == pr_master_base # mb

\* Variant: the base trees are not compared.
CanExitEarly_IgnoreBase(has_pr, nmm, pr_head_tree, new_head_tree, pr_base_tree, new_base_tree) ==
    has_pr /\ ~nmm /\ pr_head_tree = new_head_tree

CanExitEarly(has_pr, nmm, pr_head_tree, new_head_tree, pr_base_tree, new_base_tree) ==
    has_pr /\ ~nmm /\ pr_head_tree = new_head_tree /\ pr_base_tree = new_base_tree

\* Variant: the base branch of the PR is forgotten.
ExistingBaseBranch_None(pr) == NoBranch

ExistingBaseBranch(pr) ==
    IF pr.number # NoPR
    THEN (IF pr.base = MasterBranch THEN NoBranch ELSE pr.base)
    ELSE NoBranch

\* Variant: only --cherry-pick folds trunk into the PR branch.
LadderCase_NoFold(pr_base_tree, new_base_tree, nmm, base_branch, directly, cherry_pick) ==
    IF pr_base_tree = new_base_tree /\ ~nmm THEN "case1"
    ELSE IF base_branch = NoBranch /\ cherry_pick THEN "case2"
    ELSE "case3"

\* Variant: the test of case 2 comes first.
LadderCase_Case2First(pr_base_tree, new_base_tree, nmm, base_branch, directly, cherry_pick) ==
    IF base_branch = NoBranch /\ (directly \/ cherry_pick) THEN "case2"
    ELSE IF pr_base_tree = new_base_tree /\ ~nmm THEN "case1"
    ELSE "case3"

LadderCase(pr_base_tree, new_base_tree, nmm, base_branch, directly, cherry_pick) ==
    IF pr_base_tree = new_base_tree /\ ~nmm THEN "case1"
    ELSE IF base_branch = NoBranch /\ (directly \/ cherry_pick) THEN "case2"
    ELSE "case3"

\* Variant: trunk is never merged into the base branch.
BaseCommitParents_NoTrunk(pr_base_oid, mb, nmm) == <<pr_base_oid>>

\* `parents` of the new base-branch commit.
BaseCommitParents(pr_base_oid, mb, nmm) ==
    IF nmm /\ pr_base_oid # mb THEN <<pr_base_oid, mb>> ELSE <<pr_base_oid>>

\* Variant: the computed parent comes first.
PrCommitParents_Swapped(pr_head_oid, pr_base_parent) ==
    IF pr_base_parent # NoOid /\ pr_head_oid # pr_base_parent
    THEN <<pr_base_parent, pr_head_oid>>
    ELSE <<pr_head_oid>>

\* Variant: the computed parent is left out.
PrCommitParents_HeadOnly(pr_head_oid, pr_base_parent) == <<pr_head_oid>>

\* pr_commit_parents
PrCommitParents(pr_head_oid, pr_base_parent) ==
    IF pr_base_parent # NoOid /\ pr_head_oid # pr_base_parent
    THEN <<pr_head_oid, pr_base_parent>>
    ELSE <<pr_head_oid>>

\* The prompt is shown for an existing PR when no --message was given.
NeedsPrompt(has_pr, o) == has_pr /\ ~o.message

\* `if input.is_empty()`: an empty response aborts.
\* Variant: an empty response is taken as a message.
PromptAborts_Never(input_is_empty) == FALSE

PromptAborts(input_is_empty) == input_is_empty

\* Variant: whatever second parent was computed is pushed as a base.
PushesBase_AnyParent(base_branch, pr_base_parent) == pr_base_parent # NoOid

\* Variant: the push carries the PR branch only.
PushesBase_Never(base_branch, pr_base_parent) == FALSE

\* The base-branch refspec is part of the push.
PushesBase(base_branch, pr_base_parent) ==
    base_branch # NoBranch /\ pr_base_parent # NoOid

\* Variant: the base is sent whenever a base branch is in use.
BaseUpdate_Always(pr, base_branch) == base_branch

\* pull_request_updates.base: the new base of the PR, NoBranch if unchanged.
BaseUpdate(pr, base_branch) ==
    IF base_branch # NoBranch /\ pr.base # base_branch THEN base_branch ELSE NoBranch

\* Variant: a new PR is always opened against trunk.
CreateBase_Trunk(base_branch) == MasterBranch

\* The base a new PR is created with:
\* base_branch.as_ref().unwrap_or(&config.master_ref).
CreateBase(base_branch) ==
    IF base_branch # NoBranch THEN base_branch ELSE MasterBranch

\* The remote branches after the atomic push.
Pushed(rf, head_branch, pr_commit, base_branch, base_commit, with_base) ==
    LET put(r, b, oid, kind) ==
            IF b \in 1..Len(r) THEN [r EXCEPT ![b].oid = oid]
            ELSE Append(r, [kind |-> kind, oid |-> oid])
        r1 == put(rf, head_branch, pr_commit, "head")
    IN  IF with_base THEN put(r1, base_branch, base_commit, "base") ELSE r1

Ev(op, i, x, y) == [op |-> op, i |-> i, x |-> x, y |-> y]

Out(res, store, rf, prl, msg, ev, dec, fired) ==
    [result |-> res, objs |-> store, refs |-> rf, prs |-> prl, message |-> msg,
     events |-> ev, decision |-> [dec EXCEPT !.result = res], fired |-> fired]

-----------------------------------------------------------------------------
(* diff_impl for the i-th prepared commit `lc` with fetched state `pr`,    *)
(* options `o` and trunk base `mb`.  `fault` names the step that fails     *)
(* ("none": nothing fails; "abort": the user leaves the prompt empty).     *)
(* The value is the Result, the stores as diff_impl leaves them, the       *)
(* edited message and the calls issued, in order.                          *)

DiffImplFrom(i, lc, pr, o, mb, fault, dec1, message, ev2, new_head_tree, new_base_tree) ==
    LET has_pr == pr.number # NoPR
        pull_request_branch == IF has_pr THEN pr.head ELSE Len(refs) + 1
        pr_head_oid == IF has_pr THEN pr.head_oid ELSE mb
        pr_head_tree == TreeOf(pr_head_oid)
        pr_base_oid == IF has_pr THEN MergeBase(pr.head_oid, pr.base_oid) ELSE mb
        pr_base_tree == TreeOf(pr_base_oid)
        pr_master_base == IF has_pr THEN MergeBase(pr.head_oid, master) ELSE mb
        nmm == NeedsMergingMaster(pr_master_base, mb)
        upd_text == IF o.update_message THEN MessageUpdate(pr, message) ELSE 0
    IN
    IF CanExitEarly(has_pr, nmm, pr_head_tree, new_head_tree, pr_base_tree, new_base_tree)
    THEN
        LET dec == [dec1 EXCEPT !.nmm = nmm, !.case = "early"]
            ev3 == Append(ev2, Ev("no_update", i, pr.number, 0))
        IN  IF upd_text = 0 THEN Out("ok", objs, refs, prs, message, ev3, dec, FALSE)
            ELSE IF fault = "api" THEN Out("api", objs, refs, prs, message, ev3, dec, TRUE)
            ELSE Out("ok", objs, refs, [prs EXCEPT ![pr.number].text = upd_text], message,
                     Append(ev3, Ev("update_pr", i, NoBranch, upd_text)), dec, FALSE)
    ELSE
        LET base_branch == ExistingBaseBranch(pr)
            case == LadderCase(pr_base_tree, new_base_tree, nmm, base_branch,
                               dec1.directly, o.cherry_pick)
            store1 == IF case = "case3"
                      THEN Append(objs, [tree |-> new_base_tree,
                                         parents |-> BaseCommitParents(pr_base_oid, mb, nmm),
                                         msg |-> NoMessage])
                      ELSE objs
            pr_base_parent == IF case = "case1" THEN NoOid
                              ELSE IF case = "case2" THEN mb ELSE Len(store1)
            new_base_name == IF has_pr THEN Len(refs) + 1 ELSE Len(refs) + 2
            base_branch2 == IF case = "case1" THEN base_branch
                            ELSE IF case = "case2" THEN NoBranch
                            ELSE IF base_branch # NoBranch THEN base_branch
                            ELSE new_base_name
            dec == [dec1 EXCEPT !.nmm = nmm, !.case = case, !.base_commit = 
                       IF case = "case3" THEN Len(store1) ELSE NoOid]
            ev3 == IF case = "case3"
                   THEN Append(ev2, Ev("derive_base", i, Len(store1), 0)) ELSE ev2
            empty == NeedsPrompt(has_pr, o) /\ fault = "abort"
            ev4 == IF NeedsPrompt(has_pr, o)
                   THEN Append(ev3, Ev("prompt", i, empty, 0)) ELSE ev3
        IN
        IF NeedsPrompt(has_pr, o) /\ PromptAborts(empty)
        THEN Out("abort", store1, refs, prs, message, ev4, dec, TRUE)
        ELSE
        LET store2 == Append(store1, [tree |-> new_head_tree,
                                      parents |-> PrCommitParents(pr_head_oid, pr_base_parent),
                                      msg |-> NoMessage])
            pr_commit == Len(store2)
            ev5 == Append(ev4, Ev("derive_pr", i, pr_commit, 0))
            with_base == PushesBase(base_branch2, pr_base_parent)
            refs2 == Pushed(refs, pull_request_branch, pr_commit,
                            base_branch2, pr_base_parent, with_base)
            ev6 == Append(ev5, Ev("push", i, <<pr_commit, pull_request_branch>>,
                                  IF with_base THEN <<pr_base_parent, base_branch2>> ELSE <<>>))
            dec2 == [dec EXCEPT !.pr_commit = pr_commit]
        IN
        IF fault = "push"
        THEN Out("push", store2, refs, prs, message, Append(ev5, Ev("push_failed", i, 0, 0)),
                 dec2, TRUE)
        ELSE IF has_pr
        THEN
            LET upd_base == BaseUpdate(pr, base_branch2)
            IN  IF upd_text = 0 /\ upd_base = NoBranch
                THEN Out("ok", store2, refs2, prs, message, ev6, dec2, empty)
                ELSE IF fault = "api"
                THEN Out("api", store2, refs2, prs, message, ev6, dec2, TRUE)
                ELSE Out("ok", store2, refs2,
                         [prs EXCEPT ![pr.number] =
                             [@ EXCEPT !.text = IF upd_text # 0 THEN upd_text ELSE @,
                                       !.base = IF upd_base # NoBranch THEN upd_base ELSE @]],
                         message, Append(ev6, Ev("update_pr", i, upd_base, upd_text)),
                         dec2, empty)
        ELSE IF fault = "api"
        THEN Out("api", store2, refs2, prs, message, ev6, dec2, TRUE)
        ELSE
            LET prs2 == Append(prs, [head |-> pull_request_branch,
                                     base |-> CreateBase(base_branch2),
                                     open |-> TRUE, text |-> message.text])
                number == Len(prs2)
                ev7 == Append(ev6, Ev("create_pr", i, prs2[number].base, pull_request_branch))
                ev8 == Append(ev7, Ev("request_reviewers", i, number, fault # "reviewers"))
            IN  Out("ok", store2, refs2, prs2, [message EXCEPT !.pr = number], ev8,
                    [dec2 EXCEPT !.pr = number], fault = "reviewers")

DiffImpl(i, lc, pr, o, mb, fault) ==
    LET has_pr == pr.number # NoPR
        directly == DirectlyBasedOnMaster(lc.parent_oid, mb)
        cp == UsesCherryPick(o, directly)
        index == Cherrypick(lc.oid, mb)
        dec0 == [i |-> i, oid |-> lc.oid, parent_oid |-> lc.parent_oid, had_pr |-> has_pr,
                 had_base |-> ExistingBaseBranch(pr) # NoBranch, directly |-> directly,
                 cherry |-> cp, nmm |-> FALSE, case |-> "none", pr |-> pr.number,
                 base_commit |-> NoOid, pr_commit |-> NoOid, result |-> "ok"]
    IN
    IF cp /\ HasConflicts(index)
    THEN Out("conflict", objs, refs, prs, lc.message, <<>>, dec0, FALSE)
    ELSE
    LET new_head_tree == IF cp THEN WriteIndex(index) ELSE TreeOf(lc.oid)
        new_base_tree == IF cp THEN TreeOf(mb) ELSE TreeOf(lc.parent_oid)
        ev1 == IF cp THEN <<Ev("write_tree", i, 0, 0)>> ELSE <<>>
        names == IF lc.pull_request_number = NoPR THEN lc.message.reviewers ELSE <<>>
        bad == Unresolved(names)
        looked == IF bad = {} THEN Len(names) ELSE SetMin(bad)
        ev2 == ev1 \o [k \in 1..looked |-> Ev("resolve", i, k, 0)]
        message == IF names # <<>>
                   THEN [lc.message EXCEPT !.reviewers = CheckedReviewers(names)]
                   ELSE lc.message
    IN
    IF (lc.pull_request_number = NoPR \/ o.update_message)
          /\ ~ValidateCommitMessage(lc.message)
    THEN Out("validation", objs, refs, prs, lc.message, ev1, dec0, FALSE)
    ELSE IF has_pr /\ ~pr.open
    THEN Out("closed", objs, refs, prs, lc.message, ev1, dec0, FALSE)
    ELSE IF bad # {}
    THEN Out("reviewer", objs, refs, prs, lc.message, ev2, dec0, FALSE)
    ELSE DiffImplFrom(i, lc, pr, o, mb, fault, dec0, message, ev2,
                      new_head_tree, new_base_tree)

-----------------------------------------------------------------------------
(* diff: one pass                                                          *)

\* `spr diff` without flags.
Plain ==
    [all |-> FALSE, cherry_pick |-> FALSE, update_message |-> FALSE,
     message |-> FALSE, revision |-> 0]

\* The command lines tried.  --revision names a commit of the stack by its
\* position (0: no --revision), here the oldest or the newest commit of the
\* stack; `message` is TRUE when --message is given.
OptionChoices ==
    { Plain,
      [Plain EXCEPT !.all = TRUE],
      [Plain EXCEPT !.cherry_pick = TRUE],
      [Plain EXCEPT !.all = TRUE, !.message = TRUE] }
    \cup { [Plain EXCEPT !.revision = k] : k \in {1, Len(stack)} }

\* Git::lock_and_get_prepared_commits_for_revision; <<>> stands for the
\* error of --revision without a Jujutsu backend.
PreparedCommitsForRevision(revision) ==
    IF revision # 0
    THEN (IF jj THEN <<PrepareCommit(stack[revision])>> ELSE <<>>)
    ELSE [k \in 1..Len(stack) |-> PrepareCommit(stack[k])]

\* Variant: nothing is drained.
InScope_All(o, commits) == commits

\* `if !opts.all && opts.revision.is_none()`: keep the HEAD commit only.
InScope(o, commits) ==
    IF ~o.all /\ o.revision = 0 THEN <<commits[Len(commits)]>> ELSE commits

\* Variant: the parent of the HEAD commit is taken for the trunk base.
MasterBaseOid_Head(commits) == commits[Len(commits)].parent_oid

\* The trunk base of the pass.
MasterBaseOid(commits) == commits[1].parent_oid

\* pull_request_tasks: a fetch per prepared commit that has a PR number.
SpawnTasks(commits) ==
    [k \in 1..Len(commits) |->
        IF commits[k].pull_request_number # NoPR
        THEN Snapshot(commits[k].pull_request_number) ELSE NoPull]

\* diff() up to the loop: the commits are prepared, the trunk base is taken
\* and the prefetches are spawned.
BeginPass(o) ==
    /\ pc = "idle" /\ budget.steps > 0
    /\ o.revision <= Len(stack)
    /\ budget' = [budget EXCEPT !.steps = @ - 1]
    /\ opts' = o
    /\ log' = <<>>
    /\ decisions' = <<>>
    /\ idx' = 1
    /\ LET commits == PreparedCommitsForRevision(o.revision)
       IN  IF commits = <<>>
           THEN /\ result' = "revision"
                /\ pc' = "idle"
                /\ prepared' = <<>>
                /\ tasks' = <<>>
                /\ UNCHANGED master_base_oid
                /\ hist' = [since |-> "failure", rerun |-> FALSE]
           ELSE /\ result' = "ok"
                /\ pc' = "loop"
                /\ hist' = [since |-> "running",
                            rerun |-> hist.since = "pass" /\ o = opts]
                /\ master_base_oid' = MasterBaseOid(commits)
                /\ prepared' = InScope(o, commits)
                /\ tasks' = SpawnTasks(InScope(o, commits))
    /\ UNCHANGED <<objs, master, stack, refs, prs, jj>>

\* A pass begins; every prefetch has completed when the loop is entered.
StartPass(o) == BeginPass(o) /\ UNCHANGED sideVars

\* Variant: the loop never breaks.
LoopContinues_Always(res) == TRUE

\* Variant: the loop goes on past a failed push or API call.
LoopContinues_PastRemote(res) == res \in {"ok", "push", "api"}

\* Variant: the loop goes on past a validation error.
LoopContinues_PastValidation(res) == res \in {"ok", "validation", "closed", "reviewer"}

\* `if result.is_err() { break; }`
LoopContinues(res) == res = "ok"

Faults == {"none", "abort", "push", "api", "reviewers"}

\* One iteration of the loop of diff: await the prefetch, run diff_impl.
ProcessCommit(fault) ==
    /\ pc = "loop"
    /\ \E out \in {DiffImpl(idx, prepared[idx], tasks[idx], opts, master_base_oid, fault)} :
           /\ fault = "none" \/ (out.fired /\ budget.fault)
           /\ objs' = out.objs
           /\ refs' = out.refs
           /\ prs' = out.prs
           /\ prepared' = [prepared EXCEPT ![idx].message = out.message]
           /\ result' = out.result
           /\ log' = log \o out.events
           /\ decisions' = Append(decisions, out.decision)
           /\ budget' = IF out.fired THEN [budget EXCEPT !.fault = FALSE] ELSE budget
           /\ idx' = idx + 1
           /\ pc' = IF LoopContinues(out.result) /\ idx + 1 <= Len(prepared)
                    THEN "loop" ELSE "finish"
    /\ UNCHANGED <<master, stack, jj, opts, tasks, master_base_oid, hist>>
    /\ UNCHANGED sideVars

\* `Some(task.await??)`: the prefetch of the commit's PR state failed and
\* the error leaves diff at once.
AwaitFails ==
    /\ pc = "loop"
    /\ tasks[idx].number # NoPR
    /\ budget.fault
    /\ budget' = [budget EXCEPT !.fault = FALSE]
    /\ result' = "fetch"
    /\ pc' = "idle"
    /\ hist' = [hist EXCEPT !.since = "failure"]
    /\ UNCHANGED <<objs, master, stack, refs, prs, jj, opts, prepared, tasks,
                   master_base_oid, idx, log, decisions>>
    /\ UNCHANGED sideVars

\* Position in the stack of a prepared commit.
StackPos(oid) == CHOOSE p \in 1..Len(stack) : stack[p] = oid

\* Positions of the prepared commits whose rebuilt message differs from the
\* stored one.
Changed(commits) ==
    {StackPos(commits[k].oid) : k \in {j \in 1..Len(commits) :
                                         commits[j].message # objs[commits[j].oid].msg}}

\* The message commit p of the stack is rewritten with.
RewrittenMessage(commits, p) ==
    IF \E k \in 1..Len(commits) : commits[k].oid = stack[p]
    THEN commits[CHOOSE k \in 1..Len(commits) : commits[k].oid = stack[p]].message
    ELSE objs[stack[p]].msg

\* Git::lock_and_rewrite_commit_messages (JujutsuRepo::rewrite_commit_messages
\* with a Jujutsu backend): from the first commit whose message changed on,
\* every commit is written anew on its rewritten parent.
RewriteCommitMessages(commits, first) ==
    [k \in 1..(Len(stack) - first + 1) |->
        [tree |-> TreeOf(stack[first + k - 1]),
         parents |-> <<IF k = 1 THEN ParentsOf(stack[first])[1] ELSE Len(objs) + k - 1>>,
         msg |-> RewrittenMessage(commits, first + k - 1)]]

\* The end of diff: the commit messages edited by the pass are written to
\* the local commits.
FinishPass ==
    /\ pc = "finish"
    /\ pc' = "idle"
    /\ IF Changed(prepared) = {}
       THEN /\ log' = Append(log, Ev("rewrite_messages", 0, 0, 0))
            /\ UNCHANGED <<objs, stack>>
       ELSE LET first == SetMin(Changed(prepared))
            IN  /\ objs' = objs \o RewriteCommitMessages(prepared, first)
                /\ stack' = [p \in 1..Len(stack) |->
                                IF p < first THEN stack[p] ELSE Len(objs) + (p - first + 1)]
                /\ log' = log \o <<Ev("rewrite_messages", 0, 0, 0),
                                    Ev("rewrite", 0, first, Len(stack) - first + 1)>>
    /\ hist' = [hist EXCEPT !.since = IF result = "ok" THEN "pass" ELSE "failure"]
    /\ UNCHANGED <<master, refs, prs, jj, opts, prepared, tasks, master_base_oid,
                   idx, result, decisions, budget>>
    /\ UNCHANGED sideVars

Next ==
    \/ \E o \in OptionChoices : StartPass(o)
    \/ \E fault \in Faults : ProcessCommit(fault)
    \/ AwaitFails
    \/ FinishPass
    \/ \E rebase \in BOOLEAN : TrunkAdvance(rebase)
    \/ \E k \in 1..MaxStack : Amend(k)
    \/ Reorder
    \/ \E n \in 1..Len(prs) : ClosePR(n)

Spec == Init /\ [][Next]_vars

-----------------------------------------------------------------------------
(* Passes repeated over a stack that nobody edits                          *)

\* `spr diff` and `spr diff --all`.
RepeatOptionChoices == { Plain, [Plain EXCEPT !.all = TRUE] }

NextRepeat ==
    \/ \E o \in RepeatOptionChoices : StartPass(o)
    \/ \E fault \in Faults : ProcessCommit(fault)
    \/ AwaitFails
    \/ FinishPass

SpecRepeat == Init /\ [][NextRepeat]_vars

-----------------------------------------------------------------------------
(* Message edits and --update-message                                      *)

\* The user amends the k-th commit of the stack: new content in the file it
\* edits (`content`), a new title (`title`), or both; the commits above it
\* are restacked.
Revise(k, content, title) ==
    /\ Between
    /\ k \in 1..Len(stack)
    /\ content \/ title
    /\ LET old == objs[stack[k]]
           t == NewOid(objs)
           c1 == IF content THEN [old EXCEPT !.tree[EditedFile(stack[k])] = t] ELSE old
           c2 == IF title THEN [c1 EXCEPT !.msg.text = @ + 1] ELSE c1
       IN  /\ objs' = Replant(Append(objs, c2), SubSeq(stack, k + 1, Len(stack)), t)
           /\ stack' = [j \in 1..Len(stack) |-> IF j < k THEN stack[j] ELSE t + (j - k)]
    /\ SpendEdit
    /\ UNCHANGED <<master, refs, prs, jj, passVars>>

\* A commit that changes no file lands on trunk and the local stack is
\* rebased on it: every commit gets a new identity and keeps its tree.
EmptyTrunkCommit ==
    /\ Between
    /\ LET t == NewOid(objs)
           store2 == Append(objs, [tree |-> TreeOf(master), parents |-> <<master>>,
                                   msg |-> NoMessage])
       IN  /\ master' = t
           /\ objs' = Replant(store2, stack, t)
           /\ stack' = [k \in 1..Len(stack) |-> t + k]
    /\ SpendEdit
    /\ UNCHANGED <<refs, prs, jj, passVars>>

\* `spr diff --all`, with and without --update-message.
MessageOptionChoices ==
    { [Plain EXCEPT !.all = TRUE],
      [Plain EXCEPT !.all = TRUE, !.update_message = TRUE] }

NextMessage ==
    \/ \E o \in MessageOptionChoices : StartPass(o)
    \/ \E fault \in Faults : ProcessCommit(fault)
    \/ AwaitFails
    \/ FinishPass
    \/ \E k \in 1..MaxStack : \E content, title \in BOOLEAN : Revise(k, content, title)
    \/ EmptyTrunkCommit
    \/ Reorder

SpecMessage == Init /\ [][NextMessage]_vars

-----------------------------------------------------------------------------
(* First sync of a stack of three                                          *)

\* The stack of the first-sync scenario: commits A, B, C.
ScenarioStack == MaxStack + 1

\* Trunk T with A, B, C stacked on it, each changing a file, and no PR.
InitScenarioA ==
    /\ \E edits \in [1..ScenarioStack -> {1, 2}], revs \in ReviewerChoices :
          /\ objs = InitObjs(ScenarioStack, edits, revs)
          /\ stack = [k \in 1..ScenarioStack |-> k + 1]
    /\ master = 1
    /\ refs = <<>>
    /\ prs = <<>>
    /\ jj \in BOOLEAN
    /\ pc = "idle"
    /\ opts = [all |-> FALSE, cherry_pick |-> FALSE, update_message |-> FALSE,
               message |-> FALSE, revision |-> 0]
    /\ prepared = <<>>
    /\ tasks = <<>>
    /\ master_base_oid = 1
    /\ idx = 1
    /\ result = "ok"
    /\ log = <<>>
    /\ decisions = <<>>
    /\ budget = [steps |-> MaxSteps, fault |-> TRUE]
    /\ hist = [since |-> "start", rerun |-> FALSE]
    /\ SideInit

\* `spr diff --all`, run again after a failure or a success.
NextScenarioA ==
    \/ StartPass([Plain EXCEPT !.all = TRUE])
    \/ \E fault \in Faults : ProcessCommit(fault)
    \/ AwaitFails
    \/ FinishPass

SpecScenarioA == InitScenarioA /\ [][NextScenarioA]_vars

-----------------------------------------------------------------------------
(* The revision resolver and the derived commits of the two backends       *)
(* (Git in git.rs, Jujutsu in jj.rs), applied to arbitrary commit graphs   *)

\* Commits of the repositories tried; the newest one is HEAD.
MaxCommits == 3

\* The Pull Request section of a stored message: absent, the canonical URL
\* of PR n, another text that names PR n, or a text that names none.
SectionForms == {"none", "url", "short", "junk"}
NoSection == [form |-> "none", n |-> NoPR]

\* Config::parse_pull_request_field
ParsePullRequestField(section) ==
    IF section.form \in {"url", "short"} THEN section.n ELSE NoPR

\* Config::pull_request_url
PullRequestUrl(n) == [form |-> "url", n |-> n]

\* Parent lists a commit may have: none (a root), one, or two (a merge).
ParentChoices(k) ==
    {<<>>} \cup {<<a>> : a \in 1..(k - 1)}
           \cup {pair \in (1..(k - 1)) \X (1..(k - 1)) : pair[1] # pair[2]}

\* The parent lists of the commits 1..n of an acyclic graph.
RECURSIVE GraphChoices(_)
GraphChoices(n) ==
    IF n = 0 THEN {<<>>}
    ELSE {Append(g, p) : g \in GraphChoices(n - 1), p \in ParentChoices(n)}

\* A repository of n commits: any acyclic graph, every message with a
\* Pull Request section of the given form, author and committer distinct.
GraphObjs(n, pars, form) ==
    [o \in 1..n |->
        [tree |-> [EmptyTree EXCEPT ![1] = o], parents |-> pars[o],
         msg |-> [text |-> 1, pull_request |-> IF form = "none" THEN NoSection
                                                ELSE [form |-> form, n |-> o]],
         author |-> "author", committer |-> "committer"]]

\* The elements of a set of oids, oldest (least) first.
RECURSIVE SortedSeq(_)
SortedSeq(S) == IF S = {} THEN <<>> ELSE <<SetMin(S)>> \o SortedSeq(S \ {SetMin(S)})

\* The elements of a set of oids, newest first.
RECURSIVE ReversedSeq(_)
ReversedSeq(S) == IF S = {} THEN <<>> ELSE <<SetMax(S)>> \o ReversedSeq(S \ {SetMax(S)})

\* HEAD: the newest commit of the local branch, trunk if the branch is empty.
HeadOid == IF stack = <<>> THEN master ELSE stack[Len(stack)]

\* The pass variables of a repository on which no pass runs.
NoPass ==
    /\ refs = <<>>
    /\ prs = <<>>
    /\ pc = "idle"
    /\ opts = [all |-> FALSE, cherry_pick |-> FALSE, update_message |-> FALSE,
               message |-> FALSE, revision |-> 0]
    /\ prepared = <<>>
    /\ tasks = <<>>
    /\ master_base_oid = master
    /\ idx = 1
    /\ result = "ok"
    /\ log = <<>>
    /\ decisions = <<>>
    /\ budget = [steps |-> MaxSteps, fault |-> TRUE]
    /\ hist = [since |-> "start", rerun |-> FALSE]

InitResolver ==
    /\ \E pars \in GraphChoices(MaxCommits), form \in SectionForms :
          objs = GraphObjs(MaxCommits, pars, form)
    /\ master \in 1..MaxCommits
    /\ stack = SortedSeq(Ancestors(MaxCommits) \ Ancestors(master))
    /\ jj \in BOOLEAN
    /\ NoPass
    /\ SideInit

\* The result of an operation that failed.
Failed(err) == [ok |-> FALSE, err |-> err, commits |-> <<>>]
Done(commits) == [ok |-> TRUE, err |-> "none", commits |-> commits]

\* Variant: the parent count is not checked.
ParentCountOk_Any(oid) == TRUE

\* `if commit.parent_count() != 1 { return Err(..) }`
ParentCountOk(oid) == Len(ParentsOf(oid)) = 1

\* Git::lock_and_prepare_commit
LockAndPrepareCommit(oid) ==
    IF ~ParentCountOk(oid) THEN Failed("Parent commit count != 1")
    ELSE LET number == ParsePullRequestField(objs[oid].msg.pull_request)
         IN  Done(<<[oid |-> oid,
                     parent_oid |-> IF ParentsOf(oid) = <<>> THEN NoOid ELSE ParentsOf(oid)[1],
                     message |-> [objs[oid].msg EXCEPT !.pull_request =
                                     IF number # NoPR THEN PullRequestUrl(number)
                                     ELSE NoSection],
                     pull_request_number |-> number]>>)

\* Jujutsu::prepare_commit
JjPrepareCommit(oid) ==
    Done(<<[oid |-> oid,
            parent_oid |-> IF Len(ParentsOf(oid)) > 0 THEN ParentsOf(oid)[1] ELSE oid,
            message |-> objs[oid].msg,
            pull_request_number |-> ParsePullRequestField(objs[oid].msg.pull_request)]>>)

\* Prepare the commits of `oids` in order; the first failure is the result.
RECURSIVE PrepareAll(_, _)
PrepareAll(oids, withJj) ==
    IF oids = <<>> THEN Done(<<>>)
    ELSE LET first == IF withJj THEN JjPrepareCommit(Head(oids))
                      ELSE LockAndPrepareCommit(Head(oids))
             rest == PrepareAll(Tail(oids), withJj)
         IN  IF ~first.ok THEN first
             ELSE IF ~rest.ok THEN rest
             ELSE Done(first.commits \o rest.commits)

\* Git::lock_and_get_commit_oids: the commits reachable from HEAD and not
\* from trunk, parents before children.
LockAndGetCommitOids == SortedSeq(Ancestors(HeadOid) \ Ancestors(master))

\* Git::lock_and_get_prepared_commits
LockAndGetPreparedCommits == PrepareAll(LockAndGetCommitOids, FALSE)

\* Revisions tried: 0 is no --revision, 1..Len(objs) names that commit, and
\* Len(objs) + 1 is a name that resolves to nothing.
Revisions == 0..(Len(objs) + 1)

\* Variant: --revision yields the whole branch.
RevisionCommits_Branch(rev) == LockAndGetPreparedCommits

\* `return Ok(vec![prepared_commit])`
RevisionCommits(rev) == LockAndPrepareCommit(rev)

\* Git::lock_and_get_prepared_commits_for_revision
LockAndGetPreparedCommitsForRevision(rev) ==
    IF rev # 0
    THEN IF jj
         THEN IF rev \notin 1..Len(objs) THEN Failed("jj log failed")
              ELSE RevisionCommits(rev)
         ELSE Failed("--revision option is only supported in Jujutsu repositories")
    ELSE LockAndGetPreparedCommits

\* `jj log --no-graph -r from::to`: the commits that descend from `from` and
\* are ancestors of `to`, both included, newest first.
JjLogRange(from, to) ==
    ReversedSeq({c \in Ancestors(to) : from \in Ancestors(c)})

\* Jujutsu::get_prepared_commits_from_to
JjGetPreparedCommitsFromTo(from, to) == PrepareAll(JjLogRange(from, to), TRUE)

\* The identity `repo.signature()` gives: the configured user, or none.
Signatures == {"none", "operator"}

\* Git::lock_and_create_derived_commit
LockAndCreateDerivedCommit(original, tree, parents, signature) ==
    [tree |-> tree, parents |-> parents, msg |-> objs[original].msg,
     author |-> objs[original].author,
     committer |-> IF signature # "none" THEN signature ELSE objs[original].committer]

\* Jujutsu::create_derived_commit
JjCreateDerivedCommit(original, tree, parents, signature) ==
    [tree |-> tree, parents |-> parents, msg |-> objs[original].msg,
     author |-> objs[original].author,
     committer |-> objs[original].author]

resolverFrame ==
    <<master, stack, refs, prs, jj, passVars, budget, hist, inflight, search, lock>>

\* One commit is prepared by one of the backends.
PrepareCall(withJj, oid) ==
    /\ oid \in 1..Len(objs)
    /\ call' = [op |-> "prepare", jj |-> withJj, oid |-> oid, all |-> FALSE, to |-> NoOid,
                out |-> IF withJj THEN JjPrepareCommit(oid) ELSE LockAndPrepareCommit(oid),
                scope |-> <<>>]
    /\ UNCHANGED <<objs, resolverFrame>>

\* diff resolves its commits and narrows them to the scope of the pass.
ResolveCall(rev, all) ==
    /\ \E out \in {LockAndGetPreparedCommitsForRevision(rev)} :
          call' = [op |-> "resolve", jj |-> FALSE, oid |-> rev, all |-> all, to |-> NoOid,
                   out |-> out,
                   scope |-> IF out.ok /\ out.commits # <<>>
                             THEN InScope([all |-> all, revision |-> rev], out.commits)
                             ELSE <<>>]
    /\ UNCHANGED <<objs, resolverFrame>>

\* The Jujutsu backend resolves a range of revisions.
RangeCall(from, to) ==
    /\ from \in 1..Len(objs) /\ to \in 1..Len(objs)
    /\ call' = [op |-> "range", jj |-> TRUE, oid |-> from, all |-> FALSE, to |-> to,
                out |-> JjGetPreparedCommitsFromTo(from, to), scope |-> <<>>]
    /\ UNCHANGED <<objs, resolverFrame>>

\* A commit derived from HEAD is written on trunk by one of the backends.
DerivedCall(withJj, signature) ==
    /\ Len(objs) = MaxCommits
    /\ LET c == IF withJj
                THEN JjCreateDerivedCommit(HeadOid, TreeOf(HeadOid), <<master>>, signature)
                ELSE LockAndCreateDerivedCommit(HeadOid, TreeOf(HeadOid), <<master>>, signature)
       IN  /\ objs' = Append(objs, c)
           /\ call' = [op |-> "derive", jj |-> withJj, oid |-> HeadOid, all |-> FALSE,
                       to |-> NewOid(objs), out |-> Done(<<>>), scope |-> <<signature>>]
    /\ UNCHANGED resolverFrame

NextResolver ==
    \/ \E withJj \in BOOLEAN, oid \in 1..MaxCommits : PrepareCall(withJj, oid)
    \/ \E rev \in Revisions, all \in BOOLEAN : ResolveCall(rev, all)
    \/ \E from, to \in 1..MaxCommits : RangeCall(from, to)
    \/ \E withJj \in BOOLEAN, signature \in Signatures : DerivedCall(withJj, signature)

SpecResolver == InitResolver /\ [][NextResolver]_vars

-----------------------------------------------------------------------------
(* The rewrite of the commit messages by the two backends, applied to a    *)
(* slice of prepared commits some of whose messages were edited            *)

\* The text an edit gives a message.
EditedText == 2

\* The slice with the messages at the positions of `edits` edited.
Edited(commits, edits) ==
    [k \in 1..Len(commits) |->
        IF k \in edits THEN [commits[k] EXCEPT !.message.text = EditedText]
        ELSE commits[k]]

\* Variant: every recreated commit is put on the parent of the slice.
RewriteParent_First(parent_oid, first_parent) == first_parent

\* `parent_oid.unwrap_or(first_parent)`
RewriteParent(parent_oid, first_parent) ==
    IF parent_oid = NoOid THEN first_parent ELSE parent_oid

\* The loop of Git::lock_and_rewrite_commit_messages with limit None, from
\* the k-th commit of the slice on.  The message rebuilt from the sections
\* of the prepared commit is compared with the stored one.
RECURSIVE RewriteLoop(_, _, _, _, _)
RewriteLoop(store, commits, k, parent_oid, updating) ==
    IF k > Len(commits)
    THEN [objs |-> store, commits |-> commits, updating |-> updating, last |-> parent_oid]
    ELSE LET commit == store[commits[k].oid]
             message == commits[k].message
             upd == updating \/ message # commit.msg
             new == [tree |-> commit.tree,
                     parents |-> <<RewriteParent(parent_oid, commits[1].parent_oid)>>,
                     msg |-> message,
                     author |-> commit.author, committer |-> commit.committer]
         IN  IF upd
             THEN RewriteLoop(Append(store, new), [commits EXCEPT ![k].oid = NewOid(store)],
                              k + 1, NewOid(store), TRUE)
             ELSE RewriteLoop(store, commits, k + 1, commits[k].oid, FALSE)

\* Git::lock_and_rewrite_commit_messages(commits, None) without a Jujutsu
\* backend.
LockAndRewriteCommitMessages(commits) ==
    IF commits = <<>>
    THEN [objs |-> objs, commits |-> commits, updating |-> FALSE, last |-> NoOid]
    ELSE RewriteLoop(objs, commits, 1, NoOid, FALSE)

rewriteFrame ==
    <<master, refs, prs, jj, pc, opts, tasks, master_base_oid, idx, result,
      decisions, budget, hist, inflight, search, lock>>

\* The native backend rewrites the messages of the branch or of its HEAD
\* commit; HEAD follows when a commit was recreated.
RewriteCall(all, edits) ==
    /\ call.op = "none" /\ ~jj
    /\ LockAndGetPreparedCommits.ok /\ LockAndGetPreparedCommits.commits # <<>>
    /\ LET slice == InScope([all |-> all, revision |-> 0],
                            LockAndGetPreparedCommits.commits)
       IN  /\ edits \subseteq 1..Len(slice)
           /\ \E out \in {LockAndRewriteCommitMessages(Edited(slice, edits))} :
                 /\ objs' = out.objs
                 /\ prepared' = out.commits
                 /\ stack' = IF out.updating
                             THEN SubSeq(stack, 1, Len(stack) - Len(slice))
                                  \o [k \in 1..Len(slice) |-> out.commits[k].oid]
                             ELSE stack
                 /\ call' = [op |-> "rewrite", jj |-> FALSE, oid |-> HeadOid, all |-> all,
                             to |-> NoOid, out |-> Done(out.commits),
                             scope |-> Edited(slice, edits)]
    /\ UNCHANGED <<log, rewriteFrame>>

\* A prepared commit of jj.rs with its message_changed flag.
Flagged(c, flag) ==
    [oid |-> c.oid, parent_oid |-> c.parent_oid, message |-> c.message,
     pull_request_number |-> c.pull_request_number, message_changed |-> flag]

\* Variant: every commit of the slice is described.
Describes_Always(c) == TRUE

\* `if !prepared_commit.message_changed { continue; }`
Describes(c) == c.message_changed

\* The loop of Jujutsu::rewrite_commit_messages from the k-th commit on.  The
\* jj command run for the failAt-th commit fails: the lookup of its change id
\* when `lookup` holds, its `jj describe` otherwise.  `issued` are the
\* describe commands run so far.
RECURSIVE JjRewriteLoop(_, _, _, _, _)
JjRewriteLoop(commits, k, failAt, lookup, issued) ==
    IF k > Len(commits)
    THEN [ok |-> TRUE, err |-> "none", commits |-> commits, issued |-> issued]
    ELSE IF ~Describes(commits[k])
    THEN JjRewriteLoop(commits, k + 1, failAt, lookup, issued)
    ELSE IF failAt = k /\ lookup
    THEN [ok |-> FALSE, err |-> "jujutsu exited with code", commits |-> commits,
          issued |-> issued]
    ELSE IF failAt = k
    THEN [ok |-> FALSE, err |-> "Failed to update commit message", commits |-> commits,
          issued |-> Append(issued, Ev("describe", k, commits[k].oid, FALSE))]
    ELSE JjRewriteLoop([commits EXCEPT ![k].message_changed = FALSE], k + 1, failAt, lookup,
                       Append(issued, Ev("describe", k, commits[k].oid, TRUE)))

\* Jujutsu::rewrite_commit_messages
JjRewriteCommitMessages(commits, failAt, lookup) ==
    JjRewriteLoop(commits, 1, failAt, lookup, <<>>)

\* The overlay backend rewrites the messages of the commits of the branch
\* that are flagged; one of its jj commands may fail.
JjRewriteCall(flags, failAt, lookup) ==
    /\ call.op = "none" /\ jj
    /\ LET commits == PrepareAll(LockAndGetCommitOids, TRUE).commits
       IN  /\ Len(flags) = Len(commits)
           /\ failAt <= Len(commits)
           /\ \E in \in {[k \in 1..Len(commits) |-> Flagged(commits[k], flags[k])]} :
              \E out \in {JjRewriteCommitMessages(in, failAt, lookup)} :
                 /\ prepared' = out.commits
                 /\ log' = out.issued
                 /\ call' = [op |-> "jj_rewrite", jj |-> TRUE, oid |-> failAt, all |-> lookup,
                             to |-> NoOid,
                             out |-> [ok |-> out.ok, err |-> out.err, commits |-> out.commits],
                             scope |-> in]
    /\ UNCHANGED <<objs, stack, rewriteFrame>>

\* The flags of a slice of up to n commits.
FlagChoices(n) == UNION {[1..m -> BOOLEAN] : m \in 0..n}

NextRewrite ==
    \/ \E all \in BOOLEAN, edits \in SUBSET (1..MaxCommits) : RewriteCall(all, edits)
    \/ \E flags \in FlagChoices(MaxCommits), failAt \in 0..MaxCommits, lookup \in BOOLEAN :
           JjRewriteCall(flags, failAt, lookup)

SpecRewrite == InitResolver /\ [][NextRewrite]_vars

-----------------------------------------------------------------------------
(* Git::lock_and_rebase_commits: the local branch is replayed on the trunk *)

\* What the environment does to the rebase: nothing, local changes of the
\* work tree collide with the checkout, or the reference cannot be written.
RebaseFaults == {"none", "checkout", "set_target"}

\* The trunk commit the branch is replayed on: 0 is the first commit of the
\* branch as it landed, f > 0 a commit that edits file f.
TrunkChoices == {0} \cup Files

\* A branch of n commits on the root, each editing one file, and a trunk
\* commit on the root.
InitRebase ==
    /\ \E n \in 0..MaxStack, trunk \in TrunkChoices :
       \E edits \in [1..n -> Files] :
          /\ trunk = 0 => n > 0
          /\ LET store == InitObjs(n, edits, <<>>)
                 t == NewOid(store)
             IN  /\ objs = Append(store,
                          [tree |-> IF trunk = 0 THEN store[2].tree
                                    ELSE [EmptyTree EXCEPT ![trunk] = t],
                           parents |-> <<1>>, msg |-> NoMessage])
                 /\ master = t
          /\ stack = [k \in 1..n |-> k + 1]
    /\ jj = FALSE
    /\ NoPass
    /\ SideInit

\* Git::cherrypick_commit: `commit` replayed on `base` in a store that may
\* hold commits written since.
CherrypickCommit(store, commit, base) ==
    LET anc == store[store[commit].parents[1]].tree
        ours == store[base].tree
        theirs == store[commit].tree
    IN  [tree |-> [f \in Files |-> MergeFile(anc[f], ours[f], theirs[f])],
         conflicts |-> {f \in Files : FileConflicts(anc[f], ours[f], theirs[f])}]

\* The result of a rebase that returns before the checkout.
RebaseOut(ok, err, store, new_oid, events) ==
    [ok |-> ok, err |-> err, objs |-> store, new_oid |-> new_oid, events |-> events]

\* The loop of Git::lock_and_rebase_commits from the k-th commit on.  A
\* commit whose replay leaves the tree of its new parent is dropped and the
\* post-rewrite hook is run for it; the others are written on the new parent
\* with their author, committer and message.
RECURSIVE RebaseLoop(_, _, _, _, _)
RebaseLoop(store, commits, k, new_parent_oid, events) ==
    IF k > Len(commits)
    THEN RebaseOut(TRUE, "none", store, new_parent_oid, events)
    ELSE LET index == CherrypickCommit(store, commits[k].oid, new_parent_oid)
             tree_oid == WriteIndex(index)
         IN  IF HasConflicts(index)
             THEN RebaseOut(FALSE, "Rebase failed due to merge conflicts", store,
                            new_parent_oid, events)
             ELSE IF tree_oid = store[new_parent_oid].tree
             THEN RebaseLoop(store, commits, k + 1, new_parent_oid,
                             Append(events, Ev("hook", k, commits[k].oid, new_parent_oid)))
             ELSE RebaseLoop(Append(store, [store[commits[k].oid] EXCEPT
                                               !.tree = tree_oid,
                                               !.parents = <<new_parent_oid>>]),
                             commits, k + 1, NewOid(store),
                             Append(events, Ev("commit", k, commits[k].oid, NewOid(store))))

\* Variant: the outcome of the checkout is not looked at.
CheckedOut_Always(fault) == TRUE

\* `repo.checkout_tree(new_commit.as_object()).reword(..)?`
CheckedOut(fault) == fault # "checkout"

\* Git::lock_and_rebase_commits.  `target` is the oid the reference HEAD
\* resolves to was set to, NoOid if it was not set.
LockAndRebaseCommits(commits, new_parent_oid, fault) ==
    IF commits = <<>>
    THEN [ok |-> TRUE, err |-> "none", objs |-> objs, events |-> <<>>, target |-> NoOid]
    ELSE LET r == RebaseLoop(objs, commits, 1, new_parent_oid, <<>>)
         IN  IF ~r.ok
             THEN [ok |-> FALSE, err |-> r.err, objs |-> r.objs, events |-> r.events,
                   target |-> NoOid]
             ELSE IF ~CheckedOut(fault)
             THEN [ok |-> FALSE,
                   err |-> "Could not check out rebased branch - please rebase manually",
                   objs |-> r.objs,
                   events |-> Append(r.events, Ev("checkout", 0, r.new_oid, FALSE)),
                   target |-> NoOid]
             ELSE IF fault = "set_target"
             THEN [ok |-> FALSE, err |-> "git", objs |-> r.objs,
                   events |-> r.events \o <<Ev("checkout", 0, r.new_oid, TRUE),
                                            Ev("set_target", 0, r.new_oid, FALSE)>>,
                   target |-> NoOid]
             ELSE [ok |-> TRUE, err |-> "none", objs |-> r.objs,
                   events |-> r.events \o <<Ev("checkout", 0, r.new_oid, TRUE),
                                            Ev("set_target", 0, r.new_oid, TRUE)>>,
                   target |-> r.new_oid]

\* The oids written by the "commit" events of `events`, in order.
RECURSIVE WrittenBy(_)
WrittenBy(events) ==
    IF events = <<>> THEN <<>>
    ELSE (IF Head(events).op = "commit" THEN <<Head(events).y>> ELSE <<>>)
         \o WrittenBy(Tail(events))

\* The branch is rebased on the trunk; the reference HEAD resolves to (the
\* branch, or HEAD itself when detached) follows if the rebase got that far.
RebaseCall(fault) ==
    /\ call.op = "none"
    /\ \E in \in {[k \in 1..Len(stack) |-> PrepareCommit(stack[k])]} :
       \E out \in {LockAndRebaseCommits(in, master, fault)} :
          /\ objs' = out.objs
          /\ stack' = IF out.target # NoOid THEN WrittenBy(out.events) ELSE stack
          /\ log' = out.events
          /\ call' = [op |-> "rebase", jj |-> FALSE, oid |-> HeadOid, all |-> FALSE,
                      to |-> master,
                      out |-> [ok |-> out.ok, err |-> out.err, commits |-> in],
                      scope |-> [fault |-> fault, stack |-> stack]]
    /\ UNCHANGED <<prepared, rewriteFrame>>

NextRebase == \E fault \in RebaseFaults : RebaseCall(fault)

SpecRebase == InitRebase /\ [][NextRebase]_vars

-----------------------------------------------------------------------------
(* Git::lock_and_find_master_base, one half of a loop iteration at a time  *)

\* Commits of the graphs searched.
SearchCommits == MaxCommits + 1

InitMasterBase ==
    /\ \E pars \in GraphChoices(SearchCommits) :
          objs = GraphObjs(SearchCommits, pars, "none")
    /\ master = 1
    /\ stack = <<>>
    /\ jj = FALSE
    /\ NoPass
    /\ SideInit

searchFrame ==
    <<objs, master, stack, refs, prs, jj, passVars, budget, hist, inflight, call, lock>>

\* The function is entered: master_oid is in its visited set and queue.
StartSearch(commit_oid, master_oid) ==
    /\ search.state = "none"
    /\ search' = [state |-> "run", turn |-> "commit", a |-> commit_oid, b |-> master_oid,
                  commit_oid |-> commit_oid, commit_ancestors |-> {},
                  master_ancestors |-> {master_oid}, master_queue |-> <<master_oid>>,
                  out |-> NoOid, lone |-> 0]
    /\ UNCHANGED searchFrame

\* Variant: the loop ends as soon as one frontier is exhausted.
LoopRuns_WhileBoth(commit_oid, master_queue) ==
    commit_oid # NoOid /\ master_queue # <<>>

\* `while !(commit_oid.is_none() && master_queue.is_empty())`
LoopRuns(commit_oid, master_queue) ==
    ~(commit_oid = NoOid /\ master_queue = <<>>)

\* `match commit.parent_count() { 0 => None, l => Some(commit.parent_id(l - 1)?) }`
NextOnCommitSide(oid) ==
    IF ParentsOf(oid) = <<>> THEN NoOid ELSE ParentsOf(oid)[Len(ParentsOf(oid))]

\* The parents of oid not yet in `seen`, in parent order, each once.
RECURSIVE Unseen(_, _)
Unseen(parents, seen) ==
    IF parents = <<>> THEN <<>>
    ELSE IF Head(parents) \in seen THEN Unseen(Tail(parents), seen)
    ELSE <<Head(parents)>> \o Unseen(Tail(parents), seen \cup {Head(parents)})

Range(seq) == {seq[k] : k \in 1..Len(seq)}

\* The first half of an iteration: the loop condition, then the commit side.
CommitStep ==
    /\ search.state = "run" /\ search.turn = "commit"
    /\ LoopRuns(search.commit_oid, search.master_queue)
    /\ LET oid == search.commit_oid
           lone == IF oid = NoOid \/ search.master_queue = <<>>
                   THEN search.lone + 1 ELSE search.lone
       IN  IF oid = NoOid
           THEN search' = [search EXCEPT !.turn = "master", !.lone = lone]
           ELSE IF oid \in search.master_ancestors
           THEN search' = [search EXCEPT !.state = "done", !.out = oid, !.lone = lone]
           ELSE search' = [search EXCEPT !.turn = "master", !.lone = lone,
                                         !.commit_ancestors = @ \cup {oid},
                                         !.commit_oid = NextOnCommitSide(oid)]
    /\ UNCHANGED searchFrame

\* The second half of an iteration: the master side.
MasterStep ==
    /\ search.state = "run" /\ search.turn = "master"
    /\ IF search.master_queue = <<>>
       THEN search' = [search EXCEPT !.turn = "commit"]
       ELSE LET oid == Head(search.master_queue)
                new == Unseen(ParentsOf(oid), search.master_ancestors)
            IN  IF oid \in search.commit_ancestors
                THEN search' = [search EXCEPT !.state = "done", !.out = oid,
                                              !.master_queue = Tail(@)]
                ELSE search' = [search EXCEPT !.turn = "commit",
                                              !.master_queue = Tail(@) \o new,
                                              !.master_ancestors = @ \cup Range(new)]
    /\ UNCHANGED searchFrame

\* The loop condition fails: `Ok(None)`.
ReturnNone ==
    /\ search.state = "run" /\ search.turn = "commit"
    /\ ~LoopRuns(search.commit_oid, search.master_queue)
    /\ search' = [search EXCEPT !.state = "done", !.out = NoOid]
    /\ UNCHANGED searchFrame

NextMasterBase ==
    \/ \E commit_oid, master_oid \in 1..SearchCommits : StartSearch(commit_oid, master_oid)
    \/ CommitStep
    \/ MasterStep
    \/ ReturnNone

SpecMasterBase == InitMasterBase /\ [][NextMasterBase]_vars

\* The function runs on one thread and is not interrupted: a step that can
\* be taken is taken.
LiveMasterBase == SpecMasterBase /\ WF_vars(CommitStep \/ MasterStep \/ ReturnNone)

-----------------------------------------------------------------------------
(* The repository mutex: the operations of Git and diff as sequences of    *)
(* steps.  "lock" and "unlock" take and drop the guard of Git::lock_repo,  *)
(* "native" is an access through the git2 handle, "external" an access by  *)
(* a command that is run to its end (the jj CLI), "await_external" an      *)
(* access by a command whose end is awaited (git fetch, git push), "await" *)
(* a suspension without access (service call, prompt).  A task positioned  *)
(* at an "await" or "await_external" step is suspended there.              *)

\* `let repo = self.lock_repo(); ...` to the end of the function or to
\* drop(repo): lock_and_get_commit_oids, lock_and_prepare_commit,
\* lock_and_rebase_commits, lock_and_cherrypick, lock_and_find_master_base,
\* lock_and_create_derived_commit, and the temporaries
\* `self.lock_repo().f(..)` of lock_and_get_head, lock_and_resolve_reference,
\* lock_and_get_all_ref_names, lock_and_write_index,
\* lock_and_get_tree_oid_for_commit, lock_and_check_no_uncommitted_changes
\* and of diff_impl's merge_base calls.
LockedNative == <<"lock", "native", "unlock">>

\* Variant: the commits are prepared while the guard of the oids is alive.
GetPreparedCommitsSteps_Nested ==
    <<"lock", "native", "lock", "native", "unlock", "unlock">>

\* Git::lock_and_get_prepared_commits: the commit oids under one guard, then
\* each commit prepared under its own.
GetPreparedCommitsSteps == LockedNative \o LockedNative

\* Git::lock_and_get_prepared_commits_for_revision with a revision: the jj
\* CLI resolves it, then the commit is prepared under the guard.
GetPreparedCommitsForRevisionSteps == <<"external">> \o LockedNative

\* Git::lock_and_rewrite_commit_messages: with Jujutsu the function returns
\* JujutsuRepo::rewrite_commit_messages (jj describe) before it takes the
\* guard; without, the whole loop runs under one guard.
RewriteCommitMessagesSteps(withJj) ==
    IF withJj THEN <<"external">> ELSE LockedNative

\* Variant: the guard is still alive when git fetch is awaited.
FetchCommitsFromRemoteSteps_Held == <<"lock", "native", "await_external", "unlock">>

\* Git::lock_and_fetch_commits_from_remote: the missing oids are collected in
\* a block that ends the guard, then git fetch runs and is awaited.
FetchCommitsFromRemoteSteps == <<"lock", "native", "unlock", "await_external">>

\* diff_impl: git push (run_command(&mut cmd).await)
PushSteps == <<"await_external">>

\* diff, diff_impl: a call of the service or the prompt in spawn_blocking,
\* awaited
SuspendSteps == <<"await">>

\* diff_impl, the values of an existing pull request: the tree of its head,
\* the trunk reference, merge_base, the tree of its base, merge_base; each
\* statement takes and drops its own guard.
PullRequestValuesSteps ==
    LockedNative \o LockedNative \o LockedNative \o LockedNative \o LockedNative

OpNames ==
    {"native", "get_prepared_commits", "get_prepared_commits_for_revision",
     "rewrite_commit_messages", "fetch_commits_from_remote", "push", "suspend",
     "pull_request_values"}

\* The operations a backend offers.
OpsOf_Backend(withJj) ==
    IF withJj THEN OpNames ELSE OpNames \ {"get_prepared_commits_for_revision"}

StepsOf(op, withJj) ==
    CASE op = "native" -> LockedNative
      [] op = "get_prepared_commits" -> GetPreparedCommitsSteps
      [] op = "get_prepared_commits_for_revision" -> GetPreparedCommitsForRevisionSteps
      [] op = "rewrite_commit_messages" -> RewriteCommitMessagesSteps(withJj)
      [] op = "fetch_commits_from_remote" -> FetchCommitsFromRemoteSteps
      [] op = "push" -> PushSteps
      [] op = "suspend" -> SuspendSteps
      [] op = "pull_request_values" -> PullRequestValuesSteps

\* `repo: Arc<Mutex<GitRepo>>`: every clone of Git shares the one mutex.
MutexOf(t) == "repo"

Holds(t) == <<MutexOf(t), t>> \in lock.held

\* The step a task is positioned at.
StepAt(t) ==
    IF lock.at[t].op = "none" THEN "none"
    ELSE StepsOf(lock.at[t].op, jj)[lock.at[t].pos]

InitLock ==
    /\ objs = GraphObjs(1, <<<<>>>>, "none")
    /\ master = 1
    /\ stack = <<>>
    /\ jj \in BOOLEAN
    /\ NoPass
    /\ SideInit

lockFrame ==
    <<objs, master, stack, refs, prs, jj, passVars, budget, hist, inflight, call, search>>

\* A task enters an operation.
Enter(t, op) ==
    /\ lock.at[t] = Idle
    /\ op \in OpsOf_Backend(jj)
    /\ lock' = [lock EXCEPT !.at[t] = [op |-> op, pos |-> 1]]
    /\ UNCHANGED lockFrame

\* Position of a task after its step.
AfterStep(t) ==
    IF lock.at[t].pos = Len(StepsOf(lock.at[t].op, jj)) THEN Idle
    ELSE [lock.at[t] EXCEPT !.pos = @ + 1]

\* Mutex::lock: the task goes on when no guard of the mutex is alive.
Acquire(t) ==
    /\ StepAt(t) = "lock"
    /\ \A u \in Tasks : <<MutexOf(t), u>> \notin lock.held
    /\ lock' = [lock EXCEPT !.held = @ \cup {<<MutexOf(t), t>>}, !.at[t] = AfterStep(t)]
    /\ UNCHANGED lockFrame

\* The guard is dropped.
Release(t) ==
    /\ StepAt(t) = "unlock"
    /\ lock' = [lock EXCEPT !.held = @ \ {<<MutexOf(t), t>>}, !.at[t] = AfterStep(t)]
    /\ UNCHANGED lockFrame

\* The repository is read or written, in the process or by a command.
Access(t) ==
    /\ StepAt(t) \in {"native", "external", "await_external"}
    /\ lock' = [lock EXCEPT !.at[t] = AfterStep(t),
                            !.last = [task |-> t, kind |-> StepAt(t),
                                      op |-> lock.at[t].op, guarded |-> Holds(t)]]
    /\ UNCHANGED lockFrame

\* An awaited call that does not touch the repository returns.
Resume(t) ==
    /\ StepAt(t) = "await"
    /\ lock' = [lock EXCEPT !.at[t] = AfterStep(t)]
    /\ UNCHANGED lockFrame

NextLock ==
    \/ \E t \in Tasks : \E op \in OpNames : Enter(t, op)
    \/ \E t \in Tasks : Acquire(t)
    \/ \E t \in Tasks : Release(t)
    \/ \E t \in Tasks : Access(t)
    \/ \E t \in Tasks : Resume(t)

SpecLock == InitLock /\ [][NextLock]_vars

\* The operations that take the mutex more than once or around an await, on
\* the native backend.
ReentryOpNames ==
    {"native", "get_prepared_commits", "pull_request_values",
     "fetch_commits_from_remote"}

InitReentry == InitLock /\ jj = FALSE

NextReentry ==
    \/ \E t \in Tasks : \E op \in ReentryOpNames : Enter(t, op)
    \/ \E t \in Tasks : Acquire(t)
    \/ \E t \in Tasks : Release(t)
    \/ \E t \in Tasks : Access(t)

SpecReentry == InitReentry /\ [][NextReentry]_vars

\* A task inside an operation goes on, and a task waiting for the mutex gets
\* it when it is free again and again: the operations of one run are finitely
\* many.
FairLock ==
    /\ SpecReentry
    /\ \A t \in Tasks :
           /\ WF_vars(Release(t)) /\ WF_vars(Access(t))
           /\ SF_vars(Acquire(t))

-----------------------------------------------------------------------------
(* The prefetch of the pull-request states: spawned tasks that complete in *)
(* any order while the loop of diff runs                                   *)

\* `pc.pull_request_number.map(|number| tokio::spawn(..))`: the positions of
\* the commits a fetch is spawned for.
Spawned(commits) ==
    {k \in 1..Len(commits) : commits[k].pull_request_number # NoPR}

\* A pass begins and its fetches are in flight.  Until the fetch of commit k
\* completes, tasks[k] holds the state the service had when it was spawned;
\* the loop cannot read it.
SpawnPass(o) ==
    /\ BeginPass(o)
    /\ inflight' = Spawned(prepared')
    /\ UNCHANGED <<call, search, lock>>

\* GitHub::get_pull_request of the k-th task completes: it returns the state
\* the service holds now.
CompleteFetch(k) ==
    /\ pc = "loop"
    /\ k \in inflight
    /\ inflight' = inflight \ {k}
    /\ tasks' = [tasks EXCEPT ![k] = Snapshot(tasks[k].number)]
    /\ log' = Append(log, Ev("get_pull_request", k, tasks[k].number, idx))
    /\ UNCHANGED <<objs, master, stack, refs, prs, jj, pc, opts, prepared,
                   master_base_oid, idx, result, decisions, budget, hist,
                   call, search, lock>>

\* Variant: the loop does not wait for the task.
Awaited_Never(k) == TRUE

\* `task.await`: the loop goes on when the task of the commit has completed.
Awaited(k) == k \notin inflight

\* One iteration of the loop, once the fetch of its commit is there.
ProcessFetched(fault) == Awaited(idx) /\ ProcessCommit(fault)

\* The scopes of a pass: the newest commit, the whole stack, one revision.
PrefetchOptionChoices ==
    { Plain, [Plain EXCEPT !.all = TRUE], [Plain EXCEPT !.revision = 1] }

NextPrefetch ==
    \/ \E o \in PrefetchOptionChoices : SpawnPass(o)
    \/ \E k \in 1..MaxStack : CompleteFetch(k)
    \/ \E fault \in Faults : ProcessFetched(fault)
    \/ AwaitFails
    \/ FinishPass
    \/ \E k \in 1..MaxStack : Amend(k)

SpecPrefetch == Init /\ [][NextPrefetch]_vars

-----------------------------------------------------------------------------
(* Properties                                                              *)

\* Calls that change the remote: refs, pull requests, review requests.
RemoteOps == {"push", "push_failed", "create_pr", "update_pr", "request_reviewers"}
\* Calls that write a commit object.
CommitOps == {"derive_base", "derive_pr"}

\* Indices of the log entries diff_impl issued for the i-th prepared commit.
EventsOf(i) == {k \in 1..Len(log) : log[k].i = i}
OpsOf(i) == {log[k].op : k \in EventsOf(i)}

\* The commit a PR's base ref points to.
BaseOidOf(n) == IF prs[n].base = MasterBranch THEN master ELSE refs[prs[n].base].oid
HeadOidOf(n) == refs[prs[n].head].oid

\* C1 (idempotence): a pass that repeats a successful pass, with the same
\* command line and nothing changed in between, takes the "No update
\* necessary" exit for every commit and issues no remote call.
C1_Idempotent ==
    hist.rerun =>
        /\ \A k \in 1..Len(log) : log[k].op \notin RemoteOps \cup CommitOps
        /\ \A k \in 1..Len(decisions) :
              decisions[k].case = "early" /\ decisions[k].result = "ok"

\* C2 (diff fidelity): after a commit was synchronised without --cherry-pick,
\* the PR head has the tree of the local commit and the merge base of the PR
\* head with the PR's base ref has the tree of the local commit's parent.
C2_DiffFidelity ==
    \A k \in 1..Len(decisions) :
        LET d == decisions[k] IN
        (d.result = "ok" /\ ~opts.cherry_pick) =>
            /\ TreeOf(HeadOidOf(d.pr)) = TreeOf(d.oid)
            /\ TreeOf(MergeBase(HeadOidOf(d.pr), BaseOidOf(d.pr))) = TreeOf(d.parent_oid)

\* Events of the log after position a.
After(a) == {b \in 1..Len(log) : b > a}

\* The push issued for the i-th prepared commit, if any.
PushesOf(i) == {k \in EventsOf(i) : log[k].op = "push"}

\* C3 (monotonic base branch): a PR whose base is a base branch keeps that
\* base in every step, and when a pass builds a new base commit for such a PR
\* the push sends it to that same branch.
C3_BaseKept ==
    \A n \in 1..Len(prs) :
        prs[n].base # MasterBranch => (n <= Len(prs') /\ prs'[n].base = prs[n].base)

C3_BasePushedToSameBranch ==
    \A k \in 1..Len(decisions) :
        LET d == decisions[k] IN
        (d.had_base /\ d.base_commit # NoOid) =>
            \A e \in PushesOf(d.i) : log[e].y = <<d.base_commit, tasks[d.i].base>>

\* C3: the base of a PR with a base branch never changes, and a rebuilt
\* base commit goes to that branch.
C3_MonotonicBaseBranch == [][C3_BaseKept]_vars /\ []C3_BasePushedToSameBranch

\* A PR with a base branch whose commit is directly on trunk again was
\* synchronised through case 3.
C3_Witness ==
    \E k \in 1..Len(decisions) :
        LET d == decisions[k] IN
        /\ d.had_base /\ d.directly /\ d.case = "case3" /\ d.result = "ok"
        /\ opts.revision = 0
        /\ prs[d.pr].base = tasks[d.i].base

\* C4 (case selection): a commit whose parent is the trunk base and whose PR
\* has no base branch goes through case 1 or case 2 (or leaves before the
\* ladder); no base commit is made, the push has no base refspec and the PR
\* is based on trunk.
C4_DirectNeverGetsBaseBranch ==
    \A k \in 1..Len(decisions) :
        LET d == decisions[k] IN
        (d.directly /\ ~d.had_base) =>
            /\ d.case \in {"none", "early", "case1", "case2"}
            /\ d.base_commit = NoOid
            /\ "derive_base" \notin OpsOf(d.i)
            /\ \A e \in PushesOf(d.i) : log[e].y = <<>>
            /\ \A e \in EventsOf(d.i) :
                  /\ log[e].op = "create_pr" => log[e].x = MasterBranch
                  /\ log[e].op = "update_pr" => log[e].x = NoBranch
            /\ d.pr # NoPR => prs[d.pr].base = MasterBranch

\* After a trunk advance, the PR of a commit directly on trunk was updated
\* through case 2.
C4_Witness ==
    \E k \in 1..Len(decisions) :
        LET d == decisions[k] IN
        /\ d.directly /\ ~d.had_base /\ d.had_pr /\ d.nmm
        /\ d.case = "case2" /\ d.result = "ok"
        /\ opts.revision = 0

\* Results of diff_impl that are validation errors.
ValidationErrors == {"validation", "closed", "reviewer"}

\* The pass edited the message of a prepared commit.
EditedMessages ==
    \E j \in 1..Len(prepared) : prepared[j].message # objs[prepared[j].oid].msg

\* C5 (best-effort message persistence): when diff returns with an error of
\* the loop, the commit-message rewrite has run, and the messages edited by
\* the pass have been written to the local commits.
C5_RewriteAfterAnyError ==
    (pc = "idle" /\ result \notin {"ok", "revision"}) =>
        /\ \E k \in 1..Len(log) : log[k].op = "rewrite_messages"
        /\ EditedMessages => \E k \in 1..Len(log) : log[k].op = "rewrite"

\* C6 (sequential pass, stop on error): the commits are processed in stack
\* order, the calls of one commit all precede the calls of the next, and
\* after an error the loop is left: only the last processed commit can have
\* failed and nothing is issued for a later commit.
C6_SequentialStopOnError ==
    /\ \A k \in 1..Len(decisions) :
          /\ decisions[k].i = k
          /\ decisions[k].oid = prepared[k].oid
          /\ k < Len(decisions) => decisions[k].result = "ok"
    /\ \A a, b \in 1..Len(log) :
          (a < b /\ log[b].i # 0) => (log[a].i # 0 /\ log[a].i <= log[b].i)
    /\ \A a \in 1..Len(log) : log[a].i <= Len(decisions)
    /\ result # "ok" => pc # "loop"
    /\ pc = "loop" => idx = Len(decisions) + 1

\* A pass stopped by an error with commits of the stack left unprocessed.
C6_Witness ==
    /\ pc = "finish" /\ result # "ok"
    /\ Len(decisions) < Len(prepared)
    /\ \A a \in 1..Len(log) : log[a].i <= Len(decisions)

\* C7 (conflict handling): in cherry-pick mode, when the replay of the commit
\* onto the trunk base conflicts, diff_impl fails for the commit and issues
\* nothing for it: no tree written, no derived commit, no push, no PR call.
C7_ConflictWritesNothing ==
    \A k \in 1..Len(decisions) :
        LET d == decisions[k] IN
        (opts.cherry_pick /\ d.parent_oid # master_base_oid
            /\ Cherrypick(d.oid, master_base_oid).conflicts # {}) =>
            /\ d.result = "conflict"
            /\ EventsOf(d.i) = {}
            /\ d.base_commit = NoOid /\ d.pr_commit = NoOid

\* A cherry-pick replay that conflicted.
C7_Witness ==
    \E k \in 1..Len(decisions) :
        LET d == decisions[k] IN
        /\ d.result = "conflict" /\ d.cherry
        /\ Cherrypick(d.oid, master_base_oid).conflicts # {}

\* The names of the Reviewers section of the local commit.
NamesOf(oid) == objs[oid].msg.reviewers

\* Calls of the i-th commit that write a commit, a ref or a pull request.
WritesOf(i) == {k \in EventsOf(i) : log[k].op \in CommitOps \cup RemoteOps}

\* C8 (validation precedes writes): for a commit without a PR every reviewer
\* name is resolved before anything is written, and one name that does not
\* resolve fails the commit with nothing written; a PR fetched as closed
\* fails the commit with nothing written.
C8_ValidationBeforeWrites ==
    \A k \in 1..Len(decisions) :
        LET d == decisions[k]
            names == NamesOf(d.oid)
            resolved == {e \in EventsOf(d.i) : log[e].op = "resolve"}
        IN  /\ (~d.had_pr /\ d.result \notin {"conflict", "validation"}
                  /\ \E n \in 1..Len(names) : ~ResolvesAs(names[n][1]))
                 => (d.result = "reviewer" /\ WritesOf(d.i) = {})
            /\ (~d.had_pr /\ WritesOf(d.i) # {})
                 => /\ {log[e].x : e \in resolved} = 1..Len(names)
                    /\ \A e \in resolved : \A w \in WritesOf(d.i) : e < w
            /\ (d.had_pr /\ ~tasks[d.i].open /\ d.result # "conflict")
                 => (d.result \in {"closed", "validation"} /\ WritesOf(d.i) = {})
            /\ d.result \in ValidationErrors => WritesOf(d.i) = {}

\* A Reviewers section whose first name resolved and whose second did not.
C8_Witness ==
    \E k \in 1..Len(decisions) :
        LET d == decisions[k] IN
        /\ d.result = "reviewer" /\ ~d.had_pr
        /\ \E e \in EventsOf(d.i) : log[e].op = "resolve" /\ log[e].x = 1
        /\ WritesOf(d.i) = {}

\* C9 as stated: a validation error of one commit leaves the rest of the
\* pass running, so that every prepared commit is processed.
C9_ValidationFatalForCommitOnly ==
    (pc = "idle" /\ result \in ValidationErrors) => Len(decisions) = Len(prepared)

\* C9 (amended): a validation error ends the loop.  The failed commit is the
\* last one processed, nothing is issued for a later commit, and the
\* commit-message rewrite still runs before diff returns.
C9_ValidationStopsPass ==
    /\ \A k \in 1..Len(decisions) :
          decisions[k].result \in ValidationErrors =>
              /\ k = Len(decisions)
              /\ pc # "loop"
              /\ \A e \in 1..Len(log) : log[e].i <= k
    /\ (pc = "idle" /\ result \in ValidationErrors) =>
          \E e \in 1..Len(log) : log[e].op = "rewrite_messages"

\* A pass over two commits that returned after a validation error of the
\* first one: the second was never processed.
C9_Witness ==
    /\ pc = "idle" /\ result \in ValidationErrors
    /\ Len(prepared) = 2 /\ Len(decisions) = 1
    /\ \E e \in 1..Len(log) : log[e].op = "rewrite_messages"

\* Positions of the log where the prompt came back empty.
EmptyPrompts == {a \in 1..Len(log) : log[a].op = "prompt" /\ log[a].x}

\* C10 as stated: after the empty response nothing is written, neither on
\* the remote nor locally.
C10_AbortNoFurtherWrites ==
    \A a \in EmptyPrompts : \A b \in After(a) :
        log[b].op \notin CommitOps \cup RemoteOps \cup {"rewrite"}

\* C10 (amended): after the empty response no ref is pushed, no PR is created
\* or updated, no derived commit is made and no later commit is processed;
\* the commit-message rewrite at the end of diff is all that follows.
C10_AbortStopsRemoteWrites ==
    \A a \in EmptyPrompts :
        /\ \A b \in After(a) : log[b].op \in {"rewrite_messages", "rewrite"}
        /\ Len(decisions) = log[a].i
        /\ decisions[log[a].i].result = "abort"
        /\ pc # "loop"

\* An aborted pass whose final rewrite wrote local commits.
C10_Witness ==
    \E a \in EmptyPrompts : \E b \in After(a) : log[b].op = "rewrite"

\* Results of diff_impl that are failures of the push or of the remote API.
RemoteErrors == {"push", "api"}

\* The reviewer request of the i-th commit failed.
ReviewRequestFailed(i) ==
    \E e \in EventsOf(i) : log[e].op = "request_reviewers" /\ ~log[e].y

\* C11 as stated: a failure of any remote call, the reviewer request
\* included, makes the commit fail and ends the pass.
C11_AnyRemoteFailureFatal ==
    \A k \in 1..Len(decisions) :
        (decisions[k].result \in RemoteErrors \/ ReviewRequestFailed(k)) =>
            /\ decisions[k].result # "ok"
            /\ k = Len(decisions)
            /\ pc # "loop"

\* C11 (amended): a failed push, a failed create or update call and a failed
\* fetch of the PR state end the pass with an error; nothing is issued for a
\* later commit and the derived commits made before the failure stay in the
\* object store.  A failed reviewer request is a warning: the commit succeeds.
C11_RemoteFailureEndsPass ==
    /\ \A k \in 1..Len(decisions) :
          LET d == decisions[k] IN
          /\ d.result \in RemoteErrors =>
                /\ k = Len(decisions) /\ pc # "loop" /\ result = d.result
                /\ \A e \in 1..Len(log) : log[e].i <= k
                /\ d.pr_commit \in 1..Len(objs)
                /\ d.case = "case3" => d.base_commit \in 1..Len(objs)
                /\ d.result = "push" => "push" \notin OpsOf(k) /\ "create_pr" \notin OpsOf(k)
          /\ ReviewRequestFailed(k) => d.result = "ok"
    /\ result = "fetch" =>
          /\ pc = "idle" /\ Len(decisions) < Len(prepared)
          /\ \A e \in 1..Len(log) : log[e].i <= Len(decisions)

\* The push of the first of two commits failed after its PR commit was made.
C11_Witness ==
    /\ pc = "finish" /\ result = "push"
    /\ Len(prepared) = 2 /\ Len(decisions) = 1
    /\ decisions[1].pr_commit \in 1..Len(objs)

\* The pushes tried for the i-th commit, failed ones included.
PushAttemptsOf(i) == {k \in EventsOf(i) : log[k].op \in {"push", "push_failed"}}

LadderCases == {"case1", "case2", "case3"}

CallsOf(i, op) == {e \in EventsOf(i) : log[e].op = op}

\* C13 (new-PR protocol): for a commit without a PR the push precedes the
\* create call and the create call precedes the reviewer request; a failed
\* push creates no PR; the PR is created on the pushed PR branch, against the
\* base branch pushed by case 3 and against trunk otherwise; an existing PR
\* is never created again and gets no reviewer request.
C13_NewPrProtocol ==
    \A k \in 1..Len(decisions) :
        LET d == decisions[k]
            creates == CallsOf(k, "create_pr")
            requests == CallsOf(k, "request_reviewers")
        IN  /\ d.had_pr => (creates = {} /\ requests = {})
            /\ Cardinality(creates) <= 1 /\ Cardinality(requests) <= 1
            /\ (~d.had_pr /\ d.result = "ok") => (creates # {} /\ requests # {})
            /\ d.result = "push" => (creates = {} /\ requests = {})
            /\ (~d.had_pr /\ d.result = "push") => d.pr = NoPR
            /\ \A c \in creates :
                  /\ \E p \in PushesOf(k) :
                        /\ p < c
                        /\ log[c].y = log[p].x[2]
                        /\ log[c].x = (IF d.case = "case3" THEN log[p].y[2]
                                       ELSE MasterBranch)
                  /\ prs[d.pr].head = log[c].y /\ prs[d.pr].base = log[c].x
            /\ \A r \in requests :
                  /\ \E c \in creates : c < r
                  /\ log[r].x = d.pr

\* A new PR created against the base branch that case 3 made for it.
C13_Witness ==
    \E k \in 1..Len(decisions) :
        LET d == decisions[k] IN
        /\ ~d.had_pr /\ d.case = "case3" /\ d.result = "ok"
        /\ \E c \in CallsOf(k, "create_pr") : log[c].x # MasterBranch
        /\ CallsOf(k, "request_reviewers") # {}

\* The pass is under way: trunk and the fetched PR states are those the
\* decisions were taken with.
InPass == pc \in {"loop", "finish"}

\* The title/body update the i-th commit calls for: the local title when
\* --update-message is given and the PR's differs, 0 otherwise.
WantedText(i) ==
    IF opts.update_message /\ prepared[i].message.text # tasks[i].text
    THEN prepared[i].message.text ELSE 0

\* The base update the decision calls for: the base branch allocated by
\* case 3 for a PR that had none, NoBranch otherwise.
WantedBase(d) ==
    IF d.case = "case3" /\ ~d.had_base
    THEN log[CHOOSE p \in PushesOf(d.i) : TRUE].y[2] ELSE NoBranch

\* C14 (partial update): after the push for an existing PR an update call is
\* issued exactly when the title/body or the base changed; it carries the
\* title/body only with --update-message and a differing PR text, and a base
\* only when a base branch is in use whose name the PR does not have yet.
C14_PartialUpdate ==
    \A k \in 1..Len(decisions) :
        LET d == decisions[k]
            updates == CallsOf(k, "update_pr")
        IN  (d.had_pr /\ d.case \in LadderCases /\ PushesOf(k) # {}) =>
                /\ Cardinality(updates) <= 1
                /\ d.result = "ok" =>
                      ((updates # {}) <=> (WantedText(k) # 0 \/ WantedBase(d) # NoBranch))
                /\ d.result = "api" =>
                      (updates = {} /\ (WantedText(k) # 0 \/ WantedBase(d) # NoBranch))
                /\ \A u \in updates :
                      /\ \A p \in PushesOf(k) : p < u
                      /\ log[u].y = WantedText(k)
                      /\ log[u].x = WantedBase(d)
                      /\ log[u].y # 0 => prs[d.pr].text = log[u].y
                      /\ log[u].x # NoBranch => prs[d.pr].base = log[u].x
                      /\ log[u].x = NoBranch => prs[d.pr].base = tasks[k].base

\* An amended and reworded commit pushed with --update-message: the update
\* carries the new title and no base.
C14_Witness ==
    \E k \in 1..Len(decisions) :
        LET d == decisions[k] IN
        /\ d.had_pr /\ d.case \in LadderCases /\ d.result = "ok"
        /\ \E u \in CallsOf(k, "update_pr") : log[u].y # 0 /\ log[u].x = NoBranch

\* The trees the PR of decision d is to show: head and base.
TargetHeadTree(d) ==
    IF d.cherry THEN Cherrypick(d.oid, master_base_oid).tree ELSE TreeOf(d.oid)
TargetBaseTree(d) ==
    IF d.cherry THEN TreeOf(master_base_oid) ELSE TreeOf(d.parent_oid)

\* The fetched PR of decision d already shows the target trees.
TreesMatch(d) ==
    /\ TreeOf(tasks[d.i].head_oid) = TargetHeadTree(d)
    /\ TreeOf(MergeBase(tasks[d.i].head_oid, tasks[d.i].base_oid)) = TargetBaseTree(d)

\* The PR of decision d has the trunk base of the pass as its master base.
MasterBaseMatches(d) ==
    MergeBase(tasks[d.i].head_oid, master) = master_base_oid

\* C15 (early exit): an open PR whose master base is the trunk base and whose
\* head and base trees are the target trees is left alone: no commit, no
\* push, no prompt.  With --update-message one update carries the changed
\* title/body and nothing else, and none is sent when the text is unchanged;
\* without it no API mutation is made.  The exit is taken in no other case.
C15_EarlyExit ==
    InPass =>
    \A k \in 1..Len(decisions) :
        LET d == decisions[k]
            updates == CallsOf(k, "update_pr")
        IN  /\ (d.had_pr /\ tasks[k].open /\ d.result \notin {"validation", "conflict"}
                  /\ MasterBaseMatches(d) /\ TreesMatch(d))
                 => d.case = "early"
            /\ d.case = "early" =>
                 /\ d.had_pr /\ tasks[k].open /\ MasterBaseMatches(d) /\ TreesMatch(d)
                 /\ OpsOf(k) \subseteq {"write_tree", "no_update", "update_pr"}
                 /\ d.pr_commit = NoOid /\ d.base_commit = NoOid
                 /\ Cardinality(updates) <= 1
                 /\ d.result = "ok" => ((updates # {}) <=> (WantedText(k) # 0))
                 /\ \A u \in updates :
                       /\ opts.update_message
                       /\ log[u].x = NoBranch
                       /\ log[u].y = WantedText(k) /\ log[u].y # 0
                       /\ prs[d.pr].text = log[u].y
                       /\ prs[d.pr].base = tasks[k].base

\* A reworded commit whose PR matches, run with --update-message: one update
\* with the new title and no push.
C15_Witness ==
    /\ InPass
    /\ \E k \in 1..Len(decisions) :
          /\ decisions[k].case = "early" /\ decisions[k].result = "ok"
          /\ CallsOf(k, "update_pr") # {}
          /\ PushAttemptsOf(k) = {}

\* The base the PR of decision d stood on before the pass: the tip of its
\* base branch, the trunk commit it was built on, or the trunk base of the
\* pass for a commit without a PR.
PreviousBase(d) ==
    IF d.had_base THEN tasks[d.i].base_oid
    ELSE IF d.had_pr THEN MergeBase(tasks[d.i].head_oid, tasks[d.i].base_oid)
    ELSE master_base_oid

\* Case 1 or case 2 applies to decision d.
FirstTwoCasesApply(d) ==
    \/ TreeOf(PreviousBase(d)) = TargetBaseTree(d) /\ ~d.nmm
    \/ ~d.had_base /\ (d.directly \/ opts.cherry_pick)

\* C16 (case 3 construction): when neither case 1 nor case 2 applies a base
\* commit is made with the target base tree, the previous base as first
\* parent and the trunk base as second parent exactly when trunk has to be
\* merged in and is not the first parent; a new base branch is allocated
\* only for a PR without one; the base commit is a parent of the PR commit.
C16_CaseThreeConstruction ==
    InPass =>
    \A k \in 1..Len(decisions) :
        LET d == decisions[k] IN
        /\ d.nmm <=> (d.case # "none" /\ d.had_pr /\ ~MasterBaseMatches(d))
        /\ d.case \in LadderCases => ((d.case = "case3") <=> ~FirstTwoCasesApply(d))
        /\ d.case = "case3" =>
              LET bc == objs[d.base_commit]
                  second == d.nmm /\ master_base_oid # PreviousBase(d)
              IN  /\ bc.tree = TargetBaseTree(d)
                  /\ bc.parents = (IF second THEN <<PreviousBase(d), master_base_oid>>
                                   ELSE <<PreviousBase(d)>>)
                  /\ d.pr_commit # NoOid =>
                        \E j \in 1..Len(objs[d.pr_commit].parents) :
                            objs[d.pr_commit].parents[j] = d.base_commit
                  /\ \A p \in PushesOf(k) :
                        IF d.had_base THEN log[p].y[2] = tasks[k].base
                        ELSE \A j \in 1..Len(tasks) :
                                log[p].y[2] \notin {tasks[j].head, tasks[j].base}

\* A PR with a base branch rebuilt after a trunk advance: its new base commit
\* merges the trunk base into the previous base-branch tip.
C16_Witness ==
    /\ InPass
    /\ \E k \in 1..Len(decisions) :
          LET d == decisions[k] IN
          /\ d.case = "case3" /\ d.had_base /\ d.nmm /\ d.result = "ok"
          /\ objs[d.base_commit].parents = <<tasks[k].base_oid, master_base_oid>>

\* C17 (case 2, direct trunk fold): an existing PR without a base branch,
\* whose commit is directly on the trunk base or is submitted with
\* --cherry-pick, and whose master base is no longer the trunk base, gets a
\* PR commit with parents [previous PR head, trunk base] and the target head
\* tree; no base commit is made and the PR stays on trunk.
C17_DirectTrunkFold ==
    InPass =>
    \A k \in 1..Len(decisions) :
        LET d == decisions[k] IN
        (d.had_pr /\ ~d.had_base /\ (d.directly \/ opts.cherry_pick)
            /\ ~MasterBaseMatches(d) /\ d.case \in LadderCases) =>
            /\ d.case = "case2"
            /\ d.base_commit = NoOid /\ CallsOf(k, "derive_base") = {}
            /\ d.pr_commit # NoOid =>
                  /\ objs[d.pr_commit].parents = <<tasks[k].head_oid, master_base_oid>>
                  /\ objs[d.pr_commit].tree = TargetHeadTree(d)
            /\ \A p \in PushesOf(k) : log[p].y = <<>> /\ log[p].x[2] = tasks[k].head
            /\ CallsOf(k, "update_pr") = {}
            /\ prs[d.pr].base = MasterBranch

\* A rebased commit whose PR on trunk got the new trunk base as the second
\* parent of its new head.
C17_Witness ==
    /\ InPass
    /\ \E k \in 1..Len(decisions) :
          LET d == decisions[k] IN
          /\ d.case = "case2" /\ d.result = "ok" /\ opts.revision = 0
          /\ objs[d.pr_commit].parents = <<tasks[k].head_oid, master>>
          /\ d.parent_oid = master

\* The first parent of a PR commit: the PR's head, or the trunk base when the
\* commit has no PR yet.
FirstParent(d) == IF d.had_pr THEN tasks[d.i].head_oid ELSE master_base_oid

\* The second parent the ladder computed for decision d, if any: the base
\* commit of case 3 or the trunk base of case 2.
ComputedParent(d) ==
    IF d.case = "case3" THEN d.base_commit
    ELSE IF d.case = "case2" THEN master_base_oid
    ELSE NoOid

\* C19 (derived PR commit shape): every PR commit made by a pass has the
\* target head tree; its first parent is the PR's head (the trunk base for a
\* new PR); it has a second parent exactly when case 3 made a base commit or
\* case 2 chose the trunk base and that commit is not the first parent; it
\* has at most two parents and no parent twice.
C19_PrCommitShape ==
    InPass =>
    \A k \in 1..Len(decisions) :
        LET d == decisions[k] IN
        d.pr_commit # NoOid =>
            LET c == objs[d.pr_commit]
                extra == ComputedParent(d)
            IN  /\ c.tree = TargetHeadTree(d)
                /\ Len(c.parents) \in {1, 2}
                /\ c.parents[1] = FirstParent(d)
                /\ (Len(c.parents) = 2) <=> (extra # NoOid /\ extra # FirstParent(d))
                /\ Len(c.parents) = 2 => c.parents[2] = extra /\ c.parents[2] # c.parents[1]
                /\ d.case = "case3" => d.base_commit # NoOid

\* Both shapes occur in one pass: a new PR whose commit has the trunk base
\* and a new base commit as parents, and an updated PR whose commit has the
\* previous head as its only parent.
C19_Witness ==
    /\ InPass
    /\ \E k, m \in 1..Len(decisions) :
          /\ decisions[k].pr_commit # NoOid /\ decisions[m].pr_commit # NoOid
          /\ ~decisions[k].had_pr /\ decisions[k].case = "case3"
          /\ Len(objs[decisions[k].pr_commit].parents) = 2
          /\ decisions[m].had_pr /\ decisions[m].case = "case1"
          /\ Len(objs[decisions[m].pr_commit].parents) = 1

\* C20 (tree identity as the exclusive test for "no change"): an open PR
\* whose head and base trees are the target trees is never pushed to,
\* whatever happened to the commit identities.
C20_TreeIdentityOnly ==
    InPass =>
    \A k \in 1..Len(decisions) :
        LET d == decisions[k] IN
        (d.had_pr /\ tasks[k].open /\ TreesMatch(d)) => PushAttemptsOf(k) = {}

\* C20, as the code decides it: the trees are compared together with one
\* commit identity, the PR's master base against the trunk base of the pass.
\* An open PR is pushed to in a faultless pass exactly when a tree differs
\* or the master base differs; a changed commit id or message alone (trees
\* and master base equal) never leads to a push or a new commit.
C20_TreesAndMasterBase ==
    InPass =>
    \A k \in 1..Len(decisions) :
        LET d == decisions[k] IN
        (d.had_pr /\ tasks[k].open /\ d.case # "none") =>
            /\ (TreesMatch(d) /\ MasterBaseMatches(d)) =>
                  /\ PushAttemptsOf(k) = {}
                  /\ d.pr_commit = NoOid /\ d.base_commit = NoOid
                  /\ refs[tasks[k].head].oid = tasks[k].head_oid
            /\ (d.result = "ok" /\ ~(TreesMatch(d) /\ MasterBaseMatches(d))) =>
                  /\ PushesOf(k) # {}
                  /\ refs[tasks[k].head].oid = d.pr_commit

\* A commit reworded since its PR was made (different id, same trees, same
\* trunk base) passes without a push, and in the same pass a PR with the
\* target trees but an older master base is pushed to.
C20_Witness ==
    /\ InPass
    /\ \E k \in 1..Len(decisions) :
          LET d == decisions[k] IN
          /\ d.had_pr /\ tasks[k].open /\ d.result = "ok"
          /\ TreesMatch(d) /\ MasterBaseMatches(d)
          /\ prepared[k].message.text # tasks[k].text
          /\ PushAttemptsOf(k) = {}

\* A PR showing the target trees, on a trunk base that moved to a commit with
\* the same tree, is pushed to.
C20_RebaseWitness ==
    /\ InPass
    /\ \E k \in 1..Len(decisions) :
          LET d == decisions[k] IN
          /\ d.had_pr /\ tasks[k].open /\ d.result = "ok"
          /\ TreesMatch(d) /\ ~MasterBaseMatches(d)
          /\ PushesOf(k) # {}

\* No commit of the pass had a PR when the pass began.
FirstSync == \A j \in 1..Len(tasks) : tasks[j].number = NoPR

\* C18 (scenario A): `diff --all` on a stack A, B, C on trunk T without PRs
\* creates one PR per commit.  The PR of A is based on trunk and has no base
\* branch; the PR of each later commit is based on a base branch created by
\* the pass whose commit has the tree of the commit below and the trunk base
\* as its only parent.
C18_ScenarioA ==
    (InPass /\ opts.all /\ FirstSync) =>
    /\ master_base_oid = master
    /\ \A k \in 1..Len(decisions) :
          LET d == decisions[k] IN
          d.result = "ok" =>
              /\ d.pr # NoPR /\ d.pr_commit # NoOid
              /\ refs[prs[d.pr].head].oid = d.pr_commit
              /\ objs[d.pr_commit].tree = TreeOf(stack[k])
              /\ \A j \in 1..(k - 1) : decisions[j].pr # d.pr
              /\ IF k = 1
                 THEN /\ d.base_commit = NoOid
                      /\ prs[d.pr].base = MasterBranch
                      /\ CallsOf(k, "derive_base") = {}
                 ELSE /\ d.base_commit # NoOid
                      /\ prs[d.pr].base # MasterBranch
                      /\ \A j \in 1..(k - 1) :
                            prs[d.pr].base \notin {prs[decisions[j].pr].base,
                                                   prs[decisions[j].pr].head}
                      /\ prs[d.pr].base # prs[d.pr].head
                      /\ refs[prs[d.pr].base].oid = d.base_commit
                      /\ objs[d.base_commit].tree = TreeOf(stack[k - 1])
                      /\ objs[d.base_commit].parents = <<master>>
    /\ (pc = "finish" /\ result = "ok") =>
          /\ Len(decisions) = ScenarioStack
          /\ Len(prs) = ScenarioStack

\* The first sync went through: three PRs, the third on a base branch with
\* B's tree.
C18_Witness ==
    /\ pc = "finish" /\ result = "ok" /\ opts.all /\ FirstSync
    /\ Len(stack) = ScenarioStack /\ Len(prs) = ScenarioStack
    /\ prs[decisions[1].pr].base = MasterBranch
    /\ TreeOf(refs[prs[decisions[ScenarioStack].pr].base].oid) = TreeOf(stack[ScenarioStack - 1])

\* C23 (trunk base determination): the trunk base of a pass is the parent of
\* the oldest commit of the stack when the stack is resolved, and the merge
\* base of the commit with trunk when a single revision is resolved with
\* --revision; a --revision commit on top of unlanded commits is not taken to
\* be directly based on trunk.
C23_TrunkBaseDetermination ==
    InPass =>
    /\ master_base_oid = (IF opts.revision # 0
                          THEN MergeBase(prepared[1].oid, master)
                          ELSE ParentsOf(stack[1])[1])
    /\ \A k \in 1..Len(decisions) :
          (opts.revision # 0 /\ decisions[k].parent_oid \notin Ancestors(master))
              => ~decisions[k].directly

\* The prepared commits the last operation returned.
Produced == IF call.op \in {"prepare", "resolve", "range"} THEN call.out.commits ELSE <<>>

\* C21 (parent invariant of the revision resolver): in both backends,
\* preparing a commit that has no parent or more than one fails, so every
\* prepared commit has exactly one parent, which is its parent_oid and is
\* never the commit itself.
C21_ParentInvariant ==
    /\ (call.op = "prepare" /\ Len(ParentsOf(call.oid)) # 1) => ~call.out.ok
    /\ \A k \in 1..Len(Produced) :
          LET c == Produced[k] IN
          /\ Len(ParentsOf(c.oid)) = 1
          /\ c.parent_oid = ParentsOf(c.oid)[1]
          /\ c.parent_oid # c.oid

\* The same, for the Git backend alone.
C21_GitParentInvariant ==
    ~call.jj => C21_ParentInvariant

\* C22 (ordering of the revision resolver): the commits returned for the
\* whole stack (Git) and for a from/to range of single-parent commits
\* (Jujutsu) are ordered oldest first: the parent of each entry is the
\* entry before it.
C22_OldestFirst ==
    (/\ (call.op = "resolve" /\ call.oid = 0) \/ call.op = "range"
     /\ call.out.ok
     /\ \A k \in 1..Len(Produced) : Len(ParentsOf(Produced[k].oid)) = 1) =>
        \A k \in 1..(Len(Produced) - 1) :
            Produced[k + 1].parent_oid = Produced[k].oid

\* The same, for the whole stack resolved by the Git backend.
C22_GitOldestFirst ==
    call.op = "resolve" => C22_OldestFirst

\* The Git backend returned a stack of two commits.
C22_GitStackOfTwo ==
    call.op = "resolve" /\ call.oid = 0 /\ call.out.ok /\ Len(call.out.commits) = 2

\* The prepared commit c is the normal form of the stored commit.
C24_Normalised(c) ==
    LET n == ParsePullRequestField(objs[c.oid].msg.pull_request)
    IN  /\ c.pull_request_number = n
        /\ c.message.pull_request = (IF n # NoPR THEN PullRequestUrl(n) ELSE NoSection)
        /\ (c.pull_request_number # NoPR) <=> (c.message.pull_request.form # "none")

\* C24 (normalisation of the pull-request reference): in both backends a
\* prepared commit whose Pull Request section names PR n has
\* pull_request_number n and the canonical URL of n as its section; one
\* whose section is absent or names no PR has no number and no section.
\* So the number is set exactly when the prepared message has the section.
C24_PullRequestNormalised ==
    \A k \in 1..Len(Produced) : C24_Normalised(Produced[k])

\* The same, for the Git backend alone.
C24_GitPullRequestNormalised ==
    ~call.jj => C24_PullRequestNormalised

\* What C25 says of a resolution in every case but that of a revision that
\* resolves with a Jujutsu backend: without a backend --revision is an
\* error, a name that does not resolve is an error, and without --revision
\* the result is the whole branch, of which diff keeps HEAD unless --all.
C25_OtherCases ==
    LET rev == call.oid
        out == call.out
    IN  /\ (rev # 0 /\ ~jj) =>
              /\ ~out.ok
              /\ out.err = "--revision option is only supported in Jujutsu repositories"
        /\ (rev # 0 /\ jj /\ rev \notin 1..Len(objs)) => ~out.ok
        /\ rev = 0 =>
              /\ out = LockAndGetPreparedCommits
              /\ out.ok =>
                    /\ [k \in 1..Len(out.commits) |-> out.commits[k].oid] = stack
                    /\ stack # <<>> =>
                          call.scope = (IF call.all THEN out.commits
                                        ELSE <<out.commits[Len(out.commits)]>>)

\* C25 (--revision scope): --revision without a Jujutsu backend is an error,
\* a revision that does not resolve is an error, and otherwise exactly one
\* commit is returned, the named one; without --revision the result is that
\* of lock_and_get_prepared_commits; with a revision diff ignores --all and
\* processes that one commit.
C25_RevisionScope ==
    call.op = "resolve" =>
        /\ C25_OtherCases
        /\ (call.oid # 0 /\ jj /\ call.oid \in 1..Len(objs)) =>
              /\ call.out.ok
              /\ Len(call.out.commits) = 1
              /\ call.out.commits[1].oid = call.oid
              /\ call.scope = call.out.commits

\* C25, as the code has it: a revision that resolves yields the named commit
\* alone when that commit has exactly one parent, and the error of preparing
\* it otherwise; never the branch.
C25_RevisionScopeOrPrepareError ==
    call.op = "resolve" =>
        /\ C25_OtherCases
        /\ (call.oid # 0 /\ jj /\ call.oid \in 1..Len(objs)) =>
              /\ call.out.ok <=> (Len(ParentsOf(call.oid)) = 1)
              /\ ~call.out.ok => call.out.err = "Parent commit count != 1"
              /\ call.out.ok =>
                    /\ Len(call.out.commits) = 1
                    /\ call.out.commits[1].oid = call.oid
                    /\ call.out.commits[1].parent_oid = ParentsOf(call.oid)[1]
                    /\ call.scope = call.out.commits

\* --revision names the older commit of a branch of two and --all is given:
\* that commit alone is in scope.
C25_Witness ==
    /\ call.op = "resolve" /\ jj /\ call.all /\ call.out.ok
    /\ Len(stack) = 2 /\ call.oid = stack[1]
    /\ Len(call.scope) = 1 /\ call.scope[1].oid = stack[1]

\* C30 (authorship of derived commits): in both backends a derived commit
\* has the author of the original commit, and as committer the operator's
\* configured identity, or the original commit's committer when none is
\* configured.
C30_Authorship ==
    call.op = "derive" =>
        LET c == objs[call.to]
            original == objs[call.oid]
            signature == call.scope[1]
        IN  /\ c.author = original.author
            /\ c.committer = (IF signature # "none" THEN signature ELSE original.committer)

\* The same, for the Git backend alone.
C30_GitAuthorship ==
    ~call.jj => C30_Authorship

\* The common ancestors (or self) of the two inputs of the search.
CommonAncestors == Ancestors(search.a) \cap Ancestors(search.b)

\* C26 (result of the merge-base fallback): when lock_and_find_master_base
\* returns Some(x), x is an ancestor-or-self of both inputs and no other
\* common ancestor of the inputs is a proper descendant of x.
C26_NearestCommonAncestor ==
    (search.state = "done" /\ search.out # NoOid) =>
        /\ search.out \in CommonAncestors
        /\ \A d \in CommonAncestors \ {search.out} : search.out \notin Ancestors(d)

\* What does hold of Some(x): x is a common ancestor-or-self of the inputs.
C26_CommonAncestor ==
    (search.state = "done" /\ search.out # NoOid) => search.out \in CommonAncestors

\* C27 (the search stops when either frontier is exhausted): no iteration
\* of the loop is begun with the commit side at its end or the master queue
\* empty.
C27_StopsWhenEitherExhausted ==
    search.state # "none" => search.lone = 0

\* What holds while the search runs and when it returns None.
C27_SearchSafety ==
    search.state # "none" =>
        /\ search.commit_ancestors \subseteq Ancestors(search.a)
        /\ search.master_ancestors \subseteq Ancestors(search.b)
        /\ Range(search.master_queue) \subseteq search.master_ancestors
        /\ (search.state = "done" /\ search.out = NoOid) =>
              /\ search.commit_oid = NoOid /\ search.master_queue = <<>>
              /\ search.commit_ancestors \cap search.master_ancestors = {}
        /\ (search.state = "done" /\ search.out # NoOid) =>
              \/ search.out \in search.master_ancestors /\ search.out = search.commit_oid
              \/ search.out \in search.commit_ancestors

\* C27, as the code has it: on every finite acyclic graph the search
\* terminates; the two sides are expanded in turn, each visited commit is
\* checked against the other side's visited set, and None is returned only
\* when both frontiers are exhausted, the visited sets being disjoint; with
\* one frontier exhausted the other side goes on.
C27_TerminatesWhenBothExhausted ==
    /\ []C27_SearchSafety
    /\ (search.state = "run") ~> (search.state = "done")

\* A search that went on with one frontier exhausted and then found a
\* common ancestor.
C27_Witness ==
    search.state = "done" /\ search.out # NoOid /\ search.lone > 0

\* A search that ended with both frontiers exhausted.
C27_NoneWitness ==
    search.state = "done" /\ search.out = NoOid /\ search.commit_ancestors # {}


\* Positions in the log of the fetches completed for the k-th commit.
FetchesOf(k) ==
    {p \in 1..Len(log) : log[p].op = "get_pull_request" /\ log[p].i = k}

\* While a pass runs: a fetch was started for exactly the commits of the
\* scope that carry a PR number, each is in flight or has completed once,
\* and a commit that was processed had its own fetch completed before its
\* turn, for its own PR number.
C29_FetchDiscipline ==
    InPass =>
        /\ Len(tasks) = Len(prepared)
        /\ \A k \in 1..Len(prepared) :
               /\ tasks[k].number = prepared[k].pull_request_number
               /\ (prepared[k].pull_request_number = NoPR)
                      => (k \notin inflight /\ FetchesOf(k) = {})
               /\ (prepared[k].pull_request_number # NoPR)
                      => /\ Cardinality(FetchesOf(k)) <= 1
                         /\ (k \in inflight) <=> (FetchesOf(k) = {})
               /\ \A p \in FetchesOf(k) :
                      /\ log[p].x = prepared[k].pull_request_number
                      /\ log[p].y <= k
        /\ \A j \in 1..Len(decisions) : j \notin inflight

\* A fetch returns the same state whenever it completes: what the loop did
\* to the commits before it has not changed it.
C29_SameResult ==
    \A k \in 1..MaxStack : CompleteFetch(k) => tasks'[k] = tasks[k]

\* C29: before the first commit is processed one PR-state fetch is in flight
\* for each commit of the scope with a PR number and none for the others;
\* in every interleaving of the completions a commit is processed, in stack
\* order, with the result of the fetch for its own PR number, which is the
\* state the fetch would have returned at any other moment of the pass, and
\* no PR state is fetched twice.
C29_ConcurrentPrefetch ==
    []C29_FetchDiscipline /\ [][C29_SameResult]_vars

\* Two commits with PRs were processed and the fetch of the second completed
\* before the fetch of the first.
C29_Witness ==
    /\ InPass
    /\ Len(decisions) >= 2
    /\ \E p \in FetchesOf(2) : \E q \in FetchesOf(1) : p < q


\* The fetch of the second commit completed after the first commit had been
\* processed and had written to the service.
C29_LateFetchWitness ==
    /\ InPass
    /\ \E p \in FetchesOf(2) : log[p].y = 2 /\ p > 1
    /\ \E q \in 1..Len(log) : log[q].i = 1 /\ log[q].op # "get_pull_request"


\* The original wording of C28: every access to the repository, whoever makes
\* it, happens with the mutex held by the task.
C28_EveryAccessUnderMutex ==
    lock.last.kind # "none" => lock.last.guarded

\* C28 (lock discipline): every access through the git2 handle happens with
\* the guard of the one repository mutex alive in the task, at most one guard
\* is alive at any time, no task is suspended at an await with its guard
\* alive, and the accesses made by commands (the jj CLI, git fetch, git push)
\* happen with no guard alive in the task.
C28_LockDiscipline ==
    /\ lock.last.kind = "native" => lock.last.guarded
    /\ lock.last.kind \in {"external", "await_external"} => ~lock.last.guarded
    /\ Cardinality(lock.held) <= 1
    /\ \A t \in Tasks :
           StepAt(t) \in {"await", "await_external"} => ~Holds(t)

\* A task reads or writes under the guard while another is suspended in
\* git fetch.
C28_Witness ==
    \E t \in Tasks : \E u \in Tasks \ {t} :
        /\ Holds(t) /\ lock.last = [task |-> t, kind |-> "native",
                                    op |-> lock.at[t].op, guarded |-> TRUE]
        /\ lock.at[u].op = "fetch_commits_from_remote"
        /\ StepAt(u) = "await_external"


\* C39 (completeness of the merge-base fallback): when
\* lock_and_find_master_base returns None the two inputs have no common
\* ancestor, whatever the shape of the graph on the commit side.
C39_NoneOnlyWithoutCommonAncestor ==
    (search.state = "done" /\ search.out = NoOid) => CommonAncestors = {}


\* No task asks for the mutex with its own guard alive, and a task outside
\* every operation holds no guard.
C37_NoReentry ==
    \A t \in Tasks :
        /\ StepAt(t) = "lock" => ~Holds(t)
        /\ lock.at[t] = Idle => ~Holds(t)

\* C37 (deadlock freedom of the repository mutex): no operation asks for the
\* mutex while its task holds it, every operation has dropped its guard when
\* it returns, and every task that asks for the mutex gets it.
C37_DeadlockFree ==
    /\ []C37_NoReentry
    /\ \A t \in Tasks : (StepAt(t) = "lock") ~> Holds(t)
    /\ \A t \in Tasks : Holds(t) ~> (lock.at[t] = Idle)

\* A task inside diff_impl's pull-request values waits for the mutex while
\* another task holds it.
C37_Witness ==
    \E t \in Tasks : \E u \in Tasks \ {t} :
        /\ lock.at[t].op = "pull_request_values" /\ lock.at[t].pos > 3
        /\ StepAt(t) = "lock"
        /\ Holds(u)


\* C36 (the ladder for a new PR): a commit without a PR gets case 1 exactly
\* when its parent's tree is the tree of the trunk base or it is
\* cherry-picked, and its PR commit then has the trunk base as its single
\* parent; otherwise it gets case 3 and a base-branch commit is created;
\* case 2 is never selected for it.
C36_NewPrNeverCase2 ==
    InPass =>
        \A j \in 1..Len(decisions) :
            LET d == decisions[j] IN
            (~d.had_pr /\ d.case # "none") =>
                /\ d.case \in {"case1", "case3"}
                /\ (d.case = "case1") <=>
                       (d.cherry \/ TreeOf(d.parent_oid) = TreeOf(master_base_oid))
                /\ (d.case = "case1" /\ d.pr_commit # NoOid) =>
                       objs[d.pr_commit].parents = <<master_base_oid>>
                /\ (d.case = "case3") => d.base_commit # NoOid

\* One pass created a PR for a commit on the trunk base by case 1 and a PR
\* for the commit above it by case 3.
C36_Witness ==
    /\ InPass
    /\ \E j, k \in 1..Len(decisions) :
           /\ ~decisions[j].had_pr /\ decisions[j].case = "case1"
           /\ decisions[j].result = "ok"
           /\ ~decisions[k].had_pr /\ decisions[k].case = "case3"
           /\ decisions[k].result = "ok"


\* A pass without --all and without --revision.
HeadOnly == InPass /\ ~opts.all /\ opts.revision = 0

\* The scope and the trunk base of a HEAD-only pass.
C35_ScopeAndBase ==
    HeadOnly =>
        /\ Len(prepared) = 1
        /\ prepared[1].oid = stack[Len(stack)]
        /\ master_base_oid = ParentsOf(stack[1])[1]
        /\ Len(stack) >= 2 => \A j \in 1..Len(decisions) : ~decisions[j].directly

\* A decision of the pass for a commit without a PR whose parent's tree is
\* not the tree of the trunk base, the ladder having been reached.
NewOffTrunk(d) ==
    ~d.had_pr /\ d.case # "none" /\ TreeOf(d.parent_oid) # TreeOf(master_base_oid)

\* The PR of decision d was created with a base branch.
CreatedOnBaseBranch(d) ==
    /\ d.case = "case3" /\ d.base_commit # NoOid
    /\ (d.pr # NoPR) => prs[d.pr].base # MasterBranch

\* The original wording of C35: in a HEAD-only pass over a stack of two or
\* more commits every new PR for a commit whose parent's tree differs from
\* the trunk base's is created with a base branch.
C35_HeadOnlyCreatesBaseBranch ==
    /\ C35_ScopeAndBase
    /\ (HeadOnly /\ Len(stack) >= 2) =>
           \A j \in 1..Len(decisions) :
               NewOffTrunk(decisions[j]) => CreatedOnBaseBranch(decisions[j])

\* C35 (HEAD-only scope): without --all and without --revision only the top
\* commit of the stack is processed and the trunk base is the parent of the
\* oldest commit of the stack; on a stack of two or more commits the top
\* commit is not directly based on trunk, and a new PR for it, its parent's
\* tree differing from the trunk base's, is created with a base branch unless
\* --cherry-pick is given: then the commit is cherry-picked onto the trunk
\* base and its PR is created against trunk.
C35_HeadOnlyUnlessCherryPick ==
    /\ C35_ScopeAndBase
    /\ (HeadOnly /\ Len(stack) >= 2) =>
           \A j \in 1..Len(decisions) :
               LET d == decisions[j] IN
               NewOffTrunk(d) =>
                   IF opts.cherry_pick
                   THEN /\ d.cherry /\ d.case = "case1"
                        /\ (d.pr # NoPR) => prs[d.pr].base = MasterBranch
                   ELSE CreatedOnBaseBranch(d)

\* A HEAD-only pass over a stack of two commits created the PR of the top
\* commit on a base branch.
C35_Witness ==
    /\ HeadOnly /\ ~opts.cherry_pick /\ Len(stack) >= 2
    /\ Len(decisions) = 1
    /\ NewOffTrunk(decisions[1]) /\ decisions[1].pr # NoPR
    /\ CreatedOnBaseBranch(decisions[1])

\* A HEAD-only pass with --cherry-pick created the PR of the top commit
\* against trunk.
C35_CherryPickWitness ==
    /\ HeadOnly /\ opts.cherry_pick /\ Len(stack) >= 2
    /\ Len(decisions) = 1
    /\ NewOffTrunk(decisions[1]) /\ decisions[1].pr # NoPR
    /\ prs[decisions[1].pr].base = MasterBranch


\* Every base a PR stands on other than trunk is a branch a commit was pushed
\* to, and each change of a PR's base made by the pass comes after a push of
\* the same commit's turn that carried a commit for that branch.
C34_BasePushedFirst ==
    /\ \A n \in 1..Len(prs) :
           prs[n].base # MasterBranch =>
               /\ prs[n].base \in 1..Len(refs)
               /\ refs[prs[n].base].oid # NoOid
    /\ \A q \in 1..Len(log) :
           (log[q].op = "update_pr" /\ log[q].x # NoBranch) =>
               \E p \in 1..(q - 1) :
                   /\ log[p].op = "push" /\ log[p].i = log[q].i
                   /\ Len(log[p].y) = 2 /\ log[p].y[2] = log[q].x

\* A turn of the loop that ends with a failed push leaves every PR as it was.
C34_FailedPushKeepsBase ==
    (/\ Len(decisions') = Len(decisions) + 1
     /\ decisions'[Len(decisions')].result = "push") => prs' = prs

\* C34 (base switch follows push): the base of an existing PR is changed to
\* a base-branch name only after the push that carries a commit for that
\* branch has succeeded; no PR ever has a base branch to which no commit was
\* pushed; when the push fails the PR's base stays as it was.
C34_BaseSwitchFollowsPush ==
    []C34_BasePushedFirst /\ [][C34_FailedPushKeepsBase]_vars

\* An existing PR was moved from trunk onto a base branch.
C34_Witness ==
    \E q \in 1..Len(log) :
        /\ log[q].op = "update_pr" /\ log[q].x # NoBranch
        /\ \E n \in 1..Len(prs) : prs[n].base = log[q].x

\* The push of an existing PR that was to move onto a base branch failed.
C34_FailedPushWitness ==
    /\ decisions # <<>>
    /\ LET d == decisions[Len(decisions)] IN
           d.result = "push" /\ d.had_pr /\ ~d.had_base /\ d.case = "case3"


\* The PRs whose branch shows the content of commit oid: while nobody edits
\* the stack, the PRs created for that commit.
PullRequestsOf(oid) ==
    {n \in 1..Len(prs) : TreeOf(refs[prs[n].head].oid) = TreeOf(oid)}

\* A turn of the loop creates a PR for a commit for which none had been
\* created.
C33_CreatesOnce ==
    (/\ Len(decisions') = Len(decisions) + 1
     /\ Len(prs') = Len(prs) + 1) =>
        PullRequestsOf(decisions'[Len(decisions')].oid) = {}

\* C33 (no duplicate pull requests): over any sequence of passes on a stack
\* that nobody edits, failed passes included, the create-PR call is made at
\* most once for each commit.
C33_NoDuplicatePullRequests == [][C33_CreatesOnce]_vars

\* Positions of the slice given to the rewrite whose message differs from
\* the stored one.
EditedPositions ==
    {k \in 1..Len(call.scope) : call.scope[k].message # objs[call.scope[k].oid].msg}

\* C32 (message-only rewrite on the native backend): the commits before the
\* first one whose rebuilt message differs from the stored one keep their
\* identity; from that one on each commit is recreated with its tree, author
\* and committer, the new message, and the commit before it (as it now is) as
\* its single parent, the parent of the slice for the first; the prepared
\* commits carry the new identities; HEAD moves to the last new identity if
\* and only if a commit was recreated.
C32_MessageOnlyRewrite ==
    call.op = "rewrite" =>
        LET in == call.scope
            first == IF EditedPositions = {} THEN Len(in) + 1 ELSE SetMin(EditedPositions)
        IN  /\ Len(prepared) = Len(in)
            /\ Len(objs) = MaxCommits + (Len(in) + 1 - first)
            /\ \A k \in 1..Len(in) :
                   IF k < first
                   THEN prepared[k] = in[k]
                   ELSE /\ prepared[k].oid = MaxCommits + (k + 1 - first)
                        /\ prepared[k] = [in[k] EXCEPT !.oid = prepared[k].oid]
                        /\ objs[prepared[k].oid] =
                               [objs[in[k].oid] EXCEPT
                                   !.msg = in[k].message,
                                   !.parents = <<IF k = 1 THEN in[1].parent_oid
                                                 ELSE prepared[k - 1].oid>>]
            /\ HeadOid = IF first <= Len(in) THEN prepared[Len(in)].oid ELSE call.oid

\* Of a slice of two commits the first kept its identity and the second was
\* recreated.
C32_Witness ==
    /\ call.op = "rewrite" /\ Len(call.scope) = 2
    /\ EditedPositions = {2}
    /\ prepared[1].oid = call.scope[1].oid /\ prepared[2].oid # call.scope[2].oid

\* The first commit of a slice of two was edited: the second was recreated
\* on the new first, its message as it was.
C32_FollowerWitness ==
    /\ call.op = "rewrite" /\ Len(call.scope) = 2
    /\ EditedPositions = {1}
    /\ objs[prepared[2].oid].parents = <<prepared[1].oid>>
    /\ prepared[1].oid # call.scope[1].oid

\* Positions of the slice given to the overlay rewrite whose flag is set.
FlaggedPositions == {k \in 1..Len(call.scope) : call.scope[k].message_changed}

\* The position at which the overlay rewrite stops: the flagged commit whose
\* jj command fails, past the end when none does.
StopsAt ==
    IF call.oid \in FlaggedPositions THEN call.oid ELSE Len(call.scope) + 1

\* The describe commands that succeed: one per flagged commit before the
\* stop, in slice order.
SuccessfulDescribes ==
    LET done == SortedSeq({k \in FlaggedPositions : k < StopsAt})
    IN  [j \in 1..Len(done) |-> Ev("describe", done[j], call.scope[done[j]].oid, TRUE)]

\* C38 (dirty-flag-gated rewrite on the overlay backend): a description
\* update is issued for exactly the flagged commits, in slice order, up to a
\* failure; the flag of each commit updated is cleared; commits with the flag
\* unset get no update; when an update fails the operation returns an error,
\* the flags of the failing and of the later commits are as they were and
\* those of the earlier commits are cleared; nothing else of a prepared
\* commit changes.
C38_DirtyFlagGatedRewrite ==
    call.op = "jj_rewrite" =>
        LET in == call.scope
            failed == StopsAt <= Len(in)
        IN  /\ call.out.ok <=> ~failed
            /\ log = IF failed /\ ~call.all
                     THEN Append(SuccessfulDescribes,
                                 Ev("describe", StopsAt, in[StopsAt].oid, FALSE))
                     ELSE SuccessfulDescribes
            /\ Len(prepared) = Len(in)
            /\ \A k \in 1..Len(in) :
                   prepared[k] = [in[k] EXCEPT !.message_changed =
                                      IF k < StopsAt THEN FALSE ELSE in[k].message_changed]

\* Of two flagged commits the first was described and the describe of the
\* second failed: its flag is still set, the flag of the first is cleared.
C38_Witness ==
    /\ call.op = "jj_rewrite" /\ ~call.out.ok /\ ~call.all
    /\ FlaggedPositions = {1, 2} /\ StopsAt = 2
    /\ ~prepared[1].message_changed /\ prepared[2].message_changed

\* A commit with the flag unset was passed over and the flagged one after it
\* was described.
C38_SkipWitness ==
    /\ call.op = "jj_rewrite" /\ call.out.ok
    /\ Len(call.scope) = 2 /\ FlaggedPositions = {2} /\ Len(log) = 1

\* The reference was written by the rebase that ran last.
SetTargetAt(k) == log[k].op = "set_target" /\ log[k].y

\* C31 (rebase is all-or-nothing on refs): lock_and_rebase_commits writes
\* the reference HEAD resolves to at most once and as its last step, after
\* every commit was replayed and the rebased top commit was checked out; when
\* the replay of the first commit conflicts, or the checkout fails, or the
\* call returns any other error, the branch and HEAD are as they were before
\* the call; when it succeeds on a non-empty slice HEAD is the rebased top
\* commit.
C31_RebaseAllOrNothing ==
    call.op = "rebase" =>
        /\ \A k \in 1..Len(log) : log[k].op = "set_target" => k = Len(log)
        /\ \A k \in 1..Len(log) :
              SetTargetAt(k) => /\ k > 1
                                /\ log[k - 1] = Ev("checkout", 0, log[k].x, TRUE)
                                /\ HeadOid = log[k].x
        /\ ~call.out.ok =>
              /\ stack = call.scope.stack
              /\ HeadOid = call.oid
              /\ \A k \in 1..Len(log) : ~SetTargetAt(k)
        /\ (call.out.commits # <<>> /\ call.scope.fault = "checkout") => ~call.out.ok
        /\ (call.out.commits # <<>>
              /\ HasConflicts(CherrypickCommit(objs, call.out.commits[1].oid, call.to)))
           => ~call.out.ok
        /\ (call.out.ok /\ call.out.commits # <<>>) =>
              /\ Len(log) = Len(call.out.commits) + 2 /\ SetTargetAt(Len(log))
              /\ Len(stack) = Cardinality({k \in 1..Len(log) : log[k].op = "commit"})
              /\ \A k \in 1..Len(stack) :
                    ParentsOf(stack[k]) = <<IF k = 1 THEN call.to ELSE stack[k - 1]>>

\* The checkout of the rebased top commit failed after commits were written,
\* and the branch is where it was.
C31_Witness ==
    /\ call.op = "rebase" /\ ~call.out.ok
    /\ Len(log) >= 2 /\ log[1].op = "commit"
    /\ log[Len(log)] = Ev("checkout", 0, log[Len(log) - 1].y, FALSE)
    /\ stack = call.scope.stack

\* The second commit of the branch conflicts after the first was written on
\* the trunk, and the branch is where it was.
C31_ConflictWitness ==
    /\ call.op = "rebase" /\ ~call.out.ok
    /\ call.out.err = "Rebase failed due to merge conflicts"
    /\ Len(log) = 1 /\ log[1].op = "commit"
    /\ HeadOid = call.oid

\* A rebase that drops the landed first commit and moves the branch.
C31_MovedWitness ==
    /\ call.op = "rebase" /\ call.out.ok
    /\ Len(log) = 4 /\ log[1].op = "hook" /\ log[2].op = "commit"
    /\ HeadOid # call.oid

====
